---- MODULE Spec2Model ----
(***************************************************************************)
(* Model of the Ari tree-walking interpreter (ari_parser): the value       *)
(* model, the environment stack (EnvManager), and the evaluator of         *)
(* statements and expressions, as a small-step machine.  Every recursive   *)
(* call of evaluate_statement / evaluate_expr / Function::call is an       *)
(* activation record on `stack`; the value a finished call hands to its    *)
(* caller is in `ret`.                                                     *)
(***************************************************************************)
EXTENDS Integers, Sequences, FiniteSets, TLC

VARIABLES
    pid,      \* which program (and its parameters) run() was given
    envs,     \* EnvManager.envs: the stack of Environment frames
    stack,    \* activation records of the evaluator, innermost last
    ret,      \* the Literal returned by the activation that finished last
    out,      \* what has been written to stdout
    status,   \* "run", "done", "exit" (bai) or "fatal" (the process has exited)
    err,      \* the diagnostic of a fatal error
    last      \* the evaluator step taken last: which arm, at which position,
              \* with which value received from its callee

vars == <<pid, envs, stack, ret, out, status, err, last>>

----------------------------------------------------------------------------
(* Bounds of the model *)

\* number of calls of g in the closure program
MaxCalls == 3
\* upper limit of the loop counters of the loop programs
LoopLimit == 3
\* number of elements after which the loop of range() is cut off
MaxRange == 4

----------------------------------------------------------------------------
(* Numbers.  A Number literal carries the text of an f32; the evaluator
   parses it (string_to_float), computes, and formats the result back.  The
   model keeps the number itself, as a fraction <<numerator, denominator>> in
   lowest terms with a positive denominator.  The programs below only produce
   small dyadic fractions, on which f32 arithmetic is exact. *)

Abs(n) == IF n < 0 THEN 0 - n ELSE n
RECURSIVE gcd(_, _)
gcd(a, b) == IF b = 0 THEN a ELSE gcd(b, a % b)
\* the fraction n/d (d # 0) in lowest terms
f32(n, d) ==
    LET g == gcd(Abs(n), Abs(d))
    IN IF d > 0 THEN << n \div g, d \div g >> ELSE << (0 - n) \div g, (0 - d) \div g >>
\* the f32 of an integer
float(n) == << n, 1 >>
f32_add(x, y) == f32(x[1] * y[2] + y[1] * x[2], x[2] * y[2])
f32_sub(x, y) == f32(x[1] * y[2] - y[1] * x[2], x[2] * y[2])
f32_mul(x, y) == f32(x[1] * y[1], x[2] * y[2])
\* x / y for y # 0
f32_div(x, y) == f32(x[1] * y[2], x[2] * y[1])
f32_lt(x, y) == x[1] * y[2] < y[1] * x[2]
f32_le(x, y) == x[1] * y[2] <= y[1] * x[2]
f32_neg(x) == << 0 - x[1], x[2] >>
\* `x as i32`: the integer part, rounded toward zero
as_i32(x) == IF x[1] >= 0 THEN x[1] \div x[2] ELSE 0 - ((0 - x[1]) \div x[2])
\* x.fract() != 0.0
has_fract(x) == x[2] # 1

----------------------------------------------------------------------------
(* token.rs *)

(* A token keeps its kind, its lexeme and its literal text (a sequence of
   characters).  line_number, index and source only feed the diagnostics. *)
Token_new(token_type, lexeme, literal) ==
    [token_type |-> token_type, lexeme |-> lexeme, literal |-> literal]
Token_none == Token_new("None", "", <<>>)
Ident(name) == Token_new("Identifier", name, <<>>)

----------------------------------------------------------------------------
(* ast.rs: Literal.  An Option is a sequence of length 0 or 1. *)

Literal_new(literal_type, value, array_values, function, is_return) ==
    [literal_type |-> literal_type, value |-> value, array_values |-> array_values,
     function |-> function, is_return |-> is_return]
new_value(literal_type, value) == Literal_new(literal_type, value, <<>>, <<>>, FALSE)
Literal_none == new_value("None", "")
Literal_number(value) == new_value("Number", value)
Literal_string(value) == new_value("String", value)
Literal_bool(value) == new_value("Bool", IF value THEN "true" ELSE "false")
Literal_null == new_value("Null", "null")
Literal_new_array(array_values) == Literal_new("Array", "", array_values, <<>>, FALSE)
Literal_new_function(function) == Literal_new("Function", "", <<>>, <<function>>, FALSE)
Literal_new_break == new_value("Break", "")
Literal_new_continue == new_value("Continue", "")

----------------------------------------------------------------------------
(* function.rs: Function descriptor *)

Function_new(function_type, arguments, user_defined, native_type, closure_env, variable_token) ==
    [function_type |-> function_type, arguments |-> arguments, user_defined |-> user_defined,
     native_type |-> native_type, closure_env |-> closure_env, variable_token |-> variable_token]
new_user(arguments, user_defined, closure_env, variable_token) ==
    Function_new("UserDefined", arguments, user_defined, "None", <<closure_env>>, variable_token)
new_native(native_type) ==
    Function_new("Native", <<>>, <<>>, native_type, <<>>, Token_none)

number_of_args(native_type) ==
    CASE native_type = "Max" -> 2
      [] native_type = "Min" -> 2
      [] native_type = "Absolute" -> 1
      [] native_type = "Map" -> 2
      [] native_type = "Filter" -> 2
      [] native_type = "Reduce" -> 3
      [] native_type = "Range" -> 3

\* mutant: the length of the arguments field, which is empty for a native
arg_length_of_field(function) == Len(function.arguments)

arg_length(function) ==
    IF function.function_type = "UserDefined"
    THEN Len(function.arguments)
    ELSE number_of_args(function.native_type)

----------------------------------------------------------------------------
(* ast.rs: Statement and Expr nodes *)

Statement_new(statement_type, statements, then_branch, else_branch, expr, token_name, tokens) ==
    [statement_type |-> statement_type, statements |-> statements,
     then_branch |-> then_branch, else_branch |-> else_branch,
     expr |-> expr, token_name |-> token_name, tokens |-> tokens]
new_block(statements) == Statement_new("Block", statements, <<>>, <<>>, <<>>, Token_none, <<>>)
Statement_new_break == Statement_new("Break", <<>>, <<>>, <<>>, <<>>, Token_none, <<>>)
Statement_new_continue == Statement_new("Continue", <<>>, <<>>, <<>>, <<>>, Token_none, <<>>)
new_expression(expr) == Statement_new("Expression", <<>>, <<>>, <<>>, <<expr>>, Token_none, <<>>)
Statement_new_function(then_branch, token_name, tokens) ==
    Statement_new("Function", <<>>, <<then_branch>>, <<>>, <<>>, token_name, tokens)
new_return(token_name, expr) == Statement_new("Return", <<>>, <<>>, <<>>, <<expr>>, token_name, <<>>)
new_if(condition_expr, then_branch, else_branch) ==
    Statement_new("If", <<>>, <<then_branch>>, else_branch, <<condition_expr>>, Token_none, <<>>)
new_while(condition_expr, body) ==
    Statement_new("While", <<>>, <<body>>, <<>>, <<condition_expr>>, Token_none, <<>>)
new_print(expr) == Statement_new("Print", <<>>, <<>>, <<>>, <<expr>>, Token_none, <<>>)
new_println(expr) == Statement_new("Println", <<>>, <<>>, <<>>, <<expr>>, Token_none, <<>>)
new_let(expr, token_name) == Statement_new("Let", <<>>, <<>>, <<>>, <<expr>>, token_name, <<>>)

Expr_new(expr_type, arguments, left, right, operator, literal) ==
    [expr_type |-> expr_type, arguments |-> arguments, left |-> left, right |-> right,
     operator |-> operator, literal |-> literal]
Expr_none == Expr_new("None", <<>>, <<>>, <<>>, Token_none, Literal_none)
Expr_binary(left, right, operator) == Expr_new("Binary", <<>>, <<left>>, <<right>>, operator, Literal_none)
Expr_logical(left, right, operator) == Expr_new("Logical", <<>>, <<left>>, <<right>>, operator, Literal_none)
Expr_literal(literal) == Expr_new("Literal", <<>>, <<>>, <<>>, Token_none, literal)
Expr_unary(right, operator) == Expr_new("Unary", <<>>, <<>>, <<right>>, operator, Literal_none)
Expr_grouping(right) == Expr_new("Grouping", <<>>, <<>>, <<right>>, Token_none, Literal_none)
Expr_variable(tok) == Expr_new("Variable", <<>>, <<>>, <<>>, tok, Literal_none)
Expr_assign(right, tok) == Expr_new("Assign", <<>>, <<>>, <<right>>, tok, Literal_none)
array_assign(left, right, tok) == Expr_new("ArrayAssign", <<>>, <<left>>, <<right>>, tok, Literal_none)
array_creation(tok, array_values) == Expr_new("ArrayCreation", array_values, <<>>, <<>>, tok, Literal_none)
array_access(left, right, tok) == Expr_new("ArrayAccess", <<>>, <<left>>, <<right>>, tok, Literal_none)
Expr_call(right, tok, arguments) == Expr_new("Call", arguments, <<>>, <<right>>, tok, Literal_none)

----------------------------------------------------------------------------
(* environment.rs: Environment (one frame) and EnvManager (the stack) *)

Environment_new == [k \in {} |-> Literal_none]

define(env, key, value) ==
    [k \in (DOMAIN env) \cup {key} |-> IF k = key THEN value ELSE env[k]]

contains_key(env, token_key) == token_key.lexeme \in DOMAIN env

get_env(E) == E[Len(E)]
add_env(E, env) == Append(E, env)
create_env(E) == Append(E, Environment_new)
\* mutant: the top frame is left on the stack
destroy_env_kept(E) == E

destroy_env(E) == SubSeq(E, 1, IF Len(E) > 0 THEN Len(E) - 1 ELSE 0)

\* mutant: the binding lands in the global frame
define_top_global(E, key, value) == [E EXCEPT ![1] = define(E[1], key, value)]

\* define() on the topmost frame: ENV.get_env().define(key, value)
define_top(E, key, value) == [E EXCEPT ![Len(E)] = define(E[Len(E)], key, value)]

\* get_variable walks the frames from the top; found = FALSE is the fatal
\* "undefined variable" exit.
RECURSIVE get_variable_from(_, _, _)
get_variable_from(E, len, token_key) ==
    IF len > 0
    THEN IF contains_key(E[len], token_key)
         THEN [found |-> TRUE, literal |-> E[len][token_key.lexeme]]
         ELSE get_variable_from(E, len - 1, token_key)
    ELSE [found |-> FALSE, literal |-> Literal_none]
\* mutant: an unknown name reads as None instead of ending the process
get_variable_lenient(E, token_key) ==
    [found |-> TRUE, literal |-> get_variable_from(E, Len(E), token_key).literal]
get_variable(E, token_key) == get_variable_from(E, Len(E), token_key)

\* assign_variable overwrites in the first frame from the top that contains
\* the name; found = FALSE is the fatal "cannot be found in this scope" exit.
RECURSIVE assign_variable_from(_, _, _, _)
assign_variable_from(E, len, tok, literal_value) ==
    IF len > 0
    THEN IF contains_key(E[len], tok)
         THEN [found |-> TRUE, envs |-> [E EXCEPT ![len] = define(E[len], tok.lexeme, literal_value)]]
         ELSE assign_variable_from(E, len - 1, tok, literal_value)
    ELSE [found |-> FALSE, envs |-> E]
\* mutant: the walk starts at the global frame
assign_variable_bottom_up(E, tok, literal_value) ==
    LET with == {n \in 1..Len(E) : contains_key(E[n], tok)}
        first == CHOOSE n \in with : \A m \in with : n <= m
    IN IF with = {}
       THEN [found |-> FALSE, envs |-> E]
       ELSE [found |-> TRUE, envs |-> [E EXCEPT ![first] = define(E[first], tok.lexeme, literal_value)]]
assign_variable(E, tok, literal_value) == assign_variable_from(E, Len(E), tok, literal_value)

\* The global frame of ENV, seeded with the native functions
NativeNames == {"max", "min", "absolute", "map", "filter", "reduce", "range"}
NativeTypeOf(name) ==
    CASE name = "max" -> "Max"
      [] name = "min" -> "Min"
      [] name = "absolute" -> "Absolute"
      [] name = "map" -> "Map"
      [] name = "filter" -> "Filter"
      [] name = "reduce" -> "Reduce"
      [] name = "range" -> "Range"
EnvManager_new ==
    << [k \in NativeNames |-> Literal_new_function(new_native(NativeTypeOf(k)))] >>

----------------------------------------------------------------------------
(* ast.rs: helpers of Expr *)

is_valid_arithmetic(left_type, right_type) ==
    (left_type = right_type) /\ (left_type = "Number" \/ left_type = "Array")

\* mutant: Null is not accepted as a condition
is_truthy_of_bool(literal) == literal.literal_type = "Bool"

is_truthy(literal) ==
    (literal.literal_type = "Bool") \/ (literal.literal_type = "Null")

\* string_to_bool is only reached with a Bool or Null literal in the model
\* (on any other text it is a fatal error)
string_to_bool(literal) ==
    CASE literal.value = "true" -> TRUE
      [] literal.value = "false" -> FALSE
      [] literal.value = "null" -> FALSE

\* is_equal for the tags it accepts; ok = FALSE is its fatal exit
is_equal(left, right) ==
    IF left.literal_type # right.literal_type
    THEN [ok |-> FALSE, value |-> FALSE]
    ELSE IF left.literal_type \in {"Number", "String", "Bool", "Null"}
         THEN [ok |-> TRUE, value |-> (left.value = right.value)]
         ELSE [ok |-> FALSE, value |-> FALSE]

\* The text a Number carries (f32::to_string): the integer part, then the
\* decimal digits of the fraction when there is one
digit(n) ==
    CASE n = 0 -> "0" [] n = 1 -> "1" [] n = 2 -> "2" [] n = 3 -> "3" [] n = 4 -> "4"
      [] n = 5 -> "5" [] n = 6 -> "6" [] n = 7 -> "7" [] n = 8 -> "8" [] n = 9 -> "9"
RECURSIVE digits(_)
digits(n) == IF n < 10 THEN digit(n) ELSE digits(n \div 10) \o digit(n % 10)
RECURSIVE fraction_digits(_, _, _)
fraction_digits(num, den, places) ==
    IF num = 0 \/ places = 0 THEN ""
    ELSE digit((num * 10) \div den) \o fraction_digits((num * 10) % den, den, places - 1)
float_to_string(x) ==
    LET n == Abs(x[1])
    IN (IF x[1] < 0 THEN "-" ELSE "") \o digits(n \div x[2])
       \o (IF n % x[2] = 0 THEN "" ELSE "." \o fraction_digits(n % x[2], x[2], 8))

\* the text in the value field of a literal
value_text(literal) ==
    IF literal.literal_type = "Number" THEN float_to_string(literal.value) ELSE literal.value

\* ok = FALSE: the operand types do not add (Err)
add_or_concat(left_type, right_type) ==
    LET left_is_number == left_type = "Number"
        left_is_string == left_type = "String"
        right_is_number == right_type = "Number"
        right_is_string == right_type = "String"
    IN IF left_type # right_type
       THEN IF (left_is_string /\ right_is_number) \/ (left_is_number /\ right_is_string)
            THEN [ok |-> TRUE, mixed_concat |-> TRUE]
            ELSE [ok |-> FALSE, mixed_concat |-> FALSE]
       ELSE [ok |-> TRUE, mixed_concat |-> FALSE]

add(left, right, string_concat) ==
    IF string_concat
    THEN new_value("String", value_text(left) \o value_text(right))
    ELSE new_value("Number", f32_add(left.value, right.value))

\* the zero test of divide reads the divisor as an i32
divide(left, right) ==
    LET right_value == right.value
    IN IF as_i32(right_value) = 0
       THEN [ok |-> FALSE, value |-> float(0)]
       ELSE [ok |-> TRUE, value |-> f32_div(left.value, right_value)]

\* The element-wise branch of the arithmetic operators on two arrays.  The
\* element tags are read from index 0 only; the traversal applies the scalar
\* operation to the pairs in index order (par_iter().zip().map().collect()
\* keeps the order, and the operation is pure).  ok = FALSE is the fatal exit.
array_arithmetic(token_type, left_array, right_array) ==
    LET bad == [ok |-> FALSE, literal |-> Literal_none]
        good(l) == [ok |-> TRUE, literal |-> l]
        n == Len(left_array)
        left_array_type == left_array[1].literal_type
        right_array_type == right_array[1].literal_type
        numbers == \A i \in 1..n : left_array[i].literal_type = "Number"
                                   /\ right_array[i].literal_type = "Number"
    IN IF Len(left_array) # Len(right_array) THEN bad
       ELSE IF n = 0 THEN good(Literal_new_array(<<>>))
       ELSE IF token_type = "Plus"
       THEN LET c == add_or_concat(left_array_type, right_array_type)
            IN IF ~c.ok THEN bad
               ELSE IF left_array_type = "Number"
               THEN IF ~c.mixed_concat /\ ~numbers THEN bad
                    ELSE good(Literal_new_array(
                            [i \in 1..n |-> add(left_array[i], right_array[i], c.mixed_concat)]))
               ELSE IF left_array_type = "String"
               THEN good(Literal_new_array([i \in 1..n |-> add(left_array[i], right_array[i], TRUE)]))
               ELSE bad
       ELSE IF left_array_type # right_array_type THEN bad
       ELSE IF left_array_type # "Number" \/ ~numbers THEN bad
       ELSE CASE token_type = "Minus" ->
                   good(Literal_new_array(
                      [i \in 1..n |-> Literal_number(f32_sub(left_array[i].value, right_array[i].value))]))
              [] token_type = "Star" ->
                   good(Literal_new_array(
                      [i \in 1..n |-> Literal_number(f32_mul(left_array[i].value, right_array[i].value))]))
              [] token_type = "Slash" ->
                   IF \E i \in 1..n : ~divide(left_array[i], right_array[i]).ok THEN bad
                   ELSE good(Literal_new_array(
                      [i \in 1..n |-> Literal_number(divide(left_array[i], right_array[i]).value)]))

\* The Binary arm of evaluate_expr on two evaluated operands: ok = FALSE is
\* the fatal exit.
binary(token_type, left, right) ==
    LET bad == [ok |-> FALSE, literal |-> Literal_none]
        valid == is_valid_arithmetic(left.literal_type, right.literal_type)
        numeric == valid /\ left.literal_type = "Number"
        good(l) == [ok |-> TRUE, literal |-> l]
    IN CASE token_type \in {"Minus", "Star", "Slash"} ->
              IF ~valid THEN bad
              ELSE IF left.literal_type = "Number"
              THEN CASE token_type = "Minus" ->
                          good(new_value(left.literal_type, f32_sub(left.value, right.value)))
                     [] token_type = "Star" ->
                          good(new_value(left.literal_type, f32_mul(left.value, right.value)))
                     [] token_type = "Slash" ->
                          LET r == divide(left, right)
                          IN IF r.ok THEN good(new_value(left.literal_type, r.value)) ELSE bad
              ELSE array_arithmetic(token_type, left.array_values, right.array_values)
         [] token_type = "Plus" ->
              LET c == add_or_concat(left.literal_type, right.literal_type)
              IN IF ~c.ok THEN bad
                 ELSE CASE left.literal_type = "Number" -> good(add(left, right, c.mixed_concat))
                        [] left.literal_type = "String" -> good(add(left, right, TRUE))
                        [] left.literal_type = "Array" ->
                             array_arithmetic(token_type, left.array_values, right.array_values)
                        [] OTHER -> bad
         [] token_type = "Greater" ->
              IF numeric THEN good(Literal_bool(f32_lt(right.value, left.value))) ELSE bad
         [] token_type = "GreaterEqual" ->
              IF numeric THEN good(Literal_bool(f32_le(right.value, left.value))) ELSE bad
         [] token_type = "Less" ->
              IF numeric THEN good(Literal_bool(f32_lt(left.value, right.value))) ELSE bad
         [] token_type = "LessEqual" ->
              IF numeric THEN good(Literal_bool(f32_le(left.value, right.value))) ELSE bad
         [] token_type = "EqualEqual" ->
              LET e == is_equal(left, right)
              IN IF e.ok THEN good(Literal_bool(e.value)) ELSE bad
         [] token_type = "BangEqual" ->
              LET e == is_equal(left, right)
              IN IF e.ok THEN good(Literal_bool(~e.value)) ELSE bad
         [] OTHER -> bad

\* The Unary arm of evaluate_expr on the evaluated operand
unary(token_type, literal) ==
    LET bad == [ok |-> FALSE, literal |-> Literal_none]
    IN CASE token_type = "Minus" ->
              IF literal.literal_type # "Number" THEN bad
              ELSE [ok |-> TRUE, literal |-> new_value(literal.literal_type, f32_neg(literal.value))]
         [] token_type = "Bang" ->
              IF ~is_truthy(literal) THEN bad
              ELSE [ok |-> TRUE, literal |-> Literal_bool(~string_to_bool(literal))]
         [] OTHER -> bad

\* The Logical arm of evaluate_expr once both operand expressions have been
\* evaluated: the type test (only the left operand is tested, twice), then
\* the choice of the result.
Logical_type_error(left_literal, right_literal) ==
    ~is_truthy(left_literal) \/ ~is_truthy(left_literal)

Logical_result(token_type, left_literal, right_literal) ==
    CASE token_type = "Or" ->
           IF string_to_bool(left_literal) THEN left_literal ELSE right_literal
      [] token_type = "And" ->
           IF ~string_to_bool(left_literal) THEN left_literal ELSE right_literal

\* Statement::print.  An array is written as `Tag(length) => [e0,e1,...]`
\* with at most max_display elements, and the line is ended only when newline
\* is set; any other value is written by println! whatever newline is.
max_display == 5
RECURSIVE array_elements_text(_, _)
array_elements_text(array_values, index) ==
    IF index >= Len(array_values) \/ index >= max_display THEN ""
    ELSE value_text(array_values[index + 1])
         \o (IF index # Len(array_values) - 1 THEN "," ELSE "")
         \o array_elements_text(array_values, index + 1)
array_text(literal) ==
    literal.array_values[1].literal_type \o "(" \o digits(Len(literal.array_values)) \o ") => ["
    \o array_elements_text(literal.array_values, 0)
    \o (IF Len(literal.array_values) >= max_display + 1 THEN " ..." ELSE "")
    \o "]"
print(literal, newline) ==
    IF literal.literal_type = "Array"
    THEN << [text |-> array_text(literal), newline |-> newline] >>
    ELSE << [text |-> literal.value, newline |-> TRUE] >>

----------------------------------------------------------------------------
(* function.rs: native functions *)

max(arguments) ==
    LET left == arguments[1]
        right == arguments[2]
    IN IF left.literal_type # "Number" \/ right.literal_type # "Number"
       THEN [ok |-> FALSE, literal |-> Literal_none]
       ELSE [ok |-> TRUE, literal |->
               Literal_number(IF f32_lt(right.value, left.value) THEN left.value ELSE right.value)]

min(arguments) ==
    LET left == arguments[1]
        right == arguments[2]
    IN IF left.literal_type # "Number" \/ right.literal_type # "Number"
       THEN [ok |-> FALSE, literal |-> Literal_none]
       ELSE [ok |-> TRUE, literal |->
               Literal_number(IF f32_lt(left.value, right.value) THEN left.value ELSE right.value)]

absolute(arguments) ==
    LET value == arguments[1]
    IN IF value.literal_type # "Number"
       THEN [ok |-> FALSE, literal |-> Literal_none]
       ELSE [ok |-> TRUE, literal |->
               Literal_number(IF f32_lt(value.value, float(0)) THEN f32_neg(value.value) ELSE value.value)]

call_native(function, arguments) ==
    CASE function.native_type = "Max" -> max(arguments)
      [] function.native_type = "Min" -> min(arguments)
      [] function.native_type = "Absolute" -> absolute(arguments)

\* call_user binds the arguments under the parameter names in the top frame
RECURSIVE bind_arguments(_, _, _, _)
bind_arguments(E, function, arguments, i) ==
    IF i > Len(arguments) THEN E
    ELSE bind_arguments(define_top(E, function.arguments[i].lexeme, arguments[i]),
                        function, arguments, i + 1)

----------------------------------------------------------------------------
(* scanner.rs.  The source text is a sequence of characters; the scanner
   counts characters (chars().nth, chars().count) and slices the text by
   bytes (&source[a..b]), so each character has its UTF-8 length. *)

\* U+00E9 is the letter e with an acute accent, two bytes in UTF-8
is_numeric(c) == c \in {"0", "1", "2", "3", "4", "5", "6", "7", "8", "9"}
is_alphabetic(c) ==
    c \in {"a", "b", "c", "d", "e", "f", "g", "h", "i", "j", "k", "l", "m", "n", "o",
           "p", "q", "r", "s", "t", "u", "v", "w", "x", "y", "z", "U+00E9"}
is_alphanumeric(c) == is_alphabetic(c) \/ is_numeric(c)
len_utf8(c) == IF c = "U+00E9" THEN 2 ELSE 1

\* the byte at which the character of index k starts
byte_offset(source, k) ==
    LET of_length(n) == Cardinality({j \in 1..k : len_utf8(source[j]) = n})
    IN of_length(1) + 2 * of_length(2) + 3 * of_length(3) + 4 * of_length(4)

RECURSIVE string(_)
\* the String made of the characters
string(chars) == IF chars = <<>> THEN "" ELSE chars[1] \o string(Tail(chars))

\* &source[a..b]: a and b are byte offsets; off a character boundary it panics
slice(S, a, b) ==
    LET at(x) == {k \in 0..Len(S.source) : S.offsets[k] = x}
    IN IF a <= b /\ at(a) # {} /\ at(b) # {}
       THEN [ok |-> TRUE,
             chars |-> SubSeq(S.source, (CHOOSE k \in at(a) : TRUE) + 1, CHOOSE k \in at(b) : TRUE)]
       ELSE [ok |-> FALSE, chars |-> <<>>]

RECURSIVE digits_value(_)
digits_value(chars) ==
    IF chars = <<>> THEN 0
    ELSE 10 * digits_value(SubSeq(chars, 1, Len(chars) - 1))
         + (CHOOSE n \in 0..9 : digit(n) = chars[Len(chars)])
RECURSIVE power_of_ten(_)
power_of_ten(n) == IF n = 0 THEN 1 ELSE 10 * power_of_ten(n - 1)
\* str.parse::<f32>() of digits with an optional fraction part
string_to_float(chars) ==
    LET dots == {k \in 1..Len(chars) : chars[k] = "."}
    IN IF dots = {} THEN f32(digits_value(chars), 1)
       ELSE LET k == CHOOSE k \in dots : TRUE
                fraction == SubSeq(chars, k + 1, Len(chars))
            IN f32(digits_value(SubSeq(chars, 1, k - 1)) * power_of_ten(Len(fraction))
                     + digits_value(fraction),
                   power_of_ten(Len(fraction)))

Scanner_new(source) ==
    [source |-> source, offsets |-> [k \in 0..Len(source) |-> byte_offset(source, k)],
     tokens |-> <<>>, start |-> 0, current |-> 0,
     line_index |-> 0, line_number |-> 1, err |-> ""]

Scanner_is_at_end(S) == S.current >= Len(S.source)
Scanner_peek(S) == IF Scanner_is_at_end(S) THEN "\\0" ELSE S.source[S.current + 1]
\* the guard counts bytes, get_char counts characters: past the last
\* character chars().nth(index).unwrap() panics
peek_next(S) ==
    IF S.current + 1 >= S.offsets[Len(S.source)] THEN [ok |-> TRUE, c |-> "\\0"]
    ELSE IF S.current + 2 > Len(S.source) THEN [ok |-> FALSE, c |-> "\\0"]
    ELSE [ok |-> TRUE, c |-> S.source[S.current + 2]]

\* while accepted(peek()) { advance(); }
advance_while(S, accepted(_)) ==
    [S EXCEPT !.current =
        CHOOSE k \in S.current..Len(S.source) :
            /\ \A j \in (S.current + 1)..k : accepted(S.source[j])
            /\ (k = Len(S.source) \/ ~accepted(S.source[k + 1]))]

SlicePanic == "byte index is not a char boundary"

add_token(S, token_type, literal) ==
    LET text == slice(S, S.start, S.current)
        line == slice(S, S.line_index, S.current)
    IN IF ~text.ok \/ ~line.ok THEN [S EXCEPT !.err = SlicePanic]
       ELSE [S EXCEPT !.tokens = Append(@, Token_new(token_type, string(text.chars), literal))]

\* print_error: the diagnostic shows the current line, then the process exits
Scanner_print_error(S, error) ==
    IF slice(S, S.line_index, S.current).ok THEN [S EXCEPT !.err = error]
    ELSE [S EXCEPT !.err = SlicePanic]

get_reserved_keyword(keyword) ==
    CASE keyword = "and" -> <<"And">>
      [] keyword = "class" -> <<"Class">>
      [] keyword = "else" -> <<"Else">>
      [] keyword = "false" -> <<"False">>
      [] keyword = "for" -> <<"For">>
      [] keyword = "fn" -> <<"Fn">>
      [] keyword = "if" -> <<"If">>
      [] keyword = "null" -> <<"Null">>
      [] keyword = "or" -> <<"Or">>
      [] keyword = "print" -> <<"Print">>
      [] keyword = "println" -> <<"Println">>
      [] keyword = "return" -> <<"Return">>
      [] keyword = "super" -> <<"Super">>
      [] keyword = "this" -> <<"This">>
      [] keyword = "true" -> <<"True">>
      [] keyword = "let" -> <<"Let">>
      [] keyword = "while" -> <<"While">>
      [] keyword = "bai" -> <<"Bai">>
      [] keyword = "break" -> <<"Break">>
      [] keyword = "continue" -> <<"Continue">>
      [] OTHER -> <<>>

consume_string_lexeme(S) ==
    LET not_quote(c) == c # "\""
        S1 == advance_while(S, not_quote)
        newlines == {k \in (S.current + 1)..S1.current : S.source[k] = "\n"}
        S2 == [S1 EXCEPT !.line_number = @ + Cardinality(newlines)]
        S3 == [S2 EXCEPT !.current = @ + 1]
        literal == slice(S3, S3.start + 1, S3.current - 1)
    IN IF Scanner_is_at_end(S2) THEN Scanner_print_error(S2, "ConsumeStringLexeme")
       ELSE IF ~literal.ok THEN [S3 EXCEPT !.err = SlicePanic]
       ELSE add_token(S3, "String", literal.chars)

consume_number_lexeme(S) ==
    LET S1 == advance_while(S, is_numeric)
        next == peek_next(S1)
        S2 == IF Scanner_peek(S1) = "." /\ next.ok /\ is_numeric(next.c)
              THEN advance_while([S1 EXCEPT !.current = @ + 1], is_numeric)
              ELSE S1
        literal == slice(S2, S2.start, S2.current)
    IN IF Scanner_peek(S1) = "." /\ ~next.ok
       THEN [S1 EXCEPT !.err = "called Option::unwrap() on a None value"]
       ELSE IF ~literal.ok THEN [S2 EXCEPT !.err = SlicePanic]
       ELSE add_token(S2, "Number", literal.chars)

consume_identifier(S) ==
    LET word(c) == is_alphanumeric(c) \/ c = "_"
        S1 == advance_while(S, word)
        text == slice(S1, S1.start, S1.current)
        keyword == get_reserved_keyword(string(text.chars))
    IN IF ~text.ok THEN [S1 EXCEPT !.err = SlicePanic]
       ELSE add_token(S1, IF keyword # <<>> THEN keyword[1] ELSE "Identifier", <<>>)

\* S.start = S.current, before the end of the source
scan_token(S0) ==
    LET c == S0.source[S0.current + 1]
        S1 == [S0 EXCEPT !.current = @ + 1]
        expected == CASE c \in {"!", "=", "<", ">"} -> "="
                      [] c = "/" -> "/"
                      [] OTHER -> "\\0"
        next_c_bool == ~Scanner_is_at_end(S1) /\ S1.source[S1.current + 1] = expected
        S == IF next_c_bool THEN [S1 EXCEPT !.current = @ + 1] ELSE S1
        not_newline(x) == x # "\n"
    IN CASE c = "[" -> add_token(S, "LeftBracket", <<>>)
         [] c = "]" -> add_token(S, "RightBracket", <<>>)
         [] c = "(" -> add_token(S, "LeftParen", <<>>)
         [] c = ")" -> add_token(S, "RightParen", <<>>)
         [] c = "{" -> add_token(S, "LeftBrace", <<>>)
         [] c = "}" -> add_token(S, "RightBrace", <<>>)
         [] c = "," -> add_token(S, "Comma", <<>>)
         [] c = "." -> add_token(S, "Dot", <<>>)
         [] c = "-" -> add_token(S, "Minus", <<>>)
         [] c = "+" -> add_token(S, "Plus", <<>>)
         [] c = ";" -> add_token(S, "Semicolon", <<>>)
         [] c = "*" -> add_token(S, "Star", <<>>)
         [] c = "!" -> add_token(S, IF next_c_bool THEN "BangEqual" ELSE "Bang", <<>>)
         [] c = "=" -> add_token(S, IF next_c_bool THEN "EqualEqual" ELSE "Equal", <<>>)
         [] c = "<" -> add_token(S, IF next_c_bool THEN "LessEqual" ELSE "Less", <<>>)
         [] c = ">" -> add_token(S, IF next_c_bool THEN "GreaterEqual" ELSE "Greater", <<>>)
         [] c = "/" -> IF next_c_bool THEN advance_while(S, not_newline)
                       ELSE add_token(S, "Slash", <<>>)
         [] c \in {" ", "\r", "\t"} -> S
         [] c = "\n" -> [S EXCEPT !.line_index = S.current, !.line_number = @ + 1]
         [] c = "\"" -> consume_string_lexeme(S)
         [] OTHER -> IF is_numeric(c) THEN consume_number_lexeme(S)
                     ELSE IF is_alphabetic(c) \/ c = "_" THEN consume_identifier(S)
                     ELSE Scanner_print_error(S, "UnknownToken")

\* scan_tokens after its loop: the Eof token closes the list
push_eof(S) ==
    IF slice(S, S.line_index, S.current).ok
    THEN [S EXCEPT !.tokens = Append(@, Token_new("Eof", "", <<>>))]
    ELSE [S EXCEPT !.err = SlicePanic]

----------------------------------------------------------------------------
(* parser.rs: what the functions of Parser compute; the functions themselves
   are the Parser actions further down *)

\* or, and, equality, comparison, term, factor
Parser_levels == <<"or", "and", "equality", "comparison", "term", "factor">>
\* the operators each of them loops on
Parser_level_tokens(level) ==
    CASE level = "or" -> {"Or"}
      [] level = "and" -> {"And"}
      [] level = "equality" -> {"BangEqual", "EqualEqual"}
      [] level = "comparison" -> {"Greater", "GreaterEqual", "Less", "LessEqual"}
      [] level = "term" -> {"Minus", "Plus"}
      [] level = "factor" -> {"Slash", "Star"}
\* the function each of them calls for its operands
Parser_level_operand(level) ==
    CASE level = "or" -> "and"
      [] level = "and" -> "equality"
      [] level = "equality" -> "comparison"
      [] level = "comparison" -> "term"
      [] level = "term" -> "factor"
      [] level = "factor" -> "array_creation"
\* the node each of them builds
Parser_level_expr(level, left, right, operator) ==
    IF level \in {"or", "and"} THEN Expr_logical(left, right, operator)
    ELSE Expr_binary(left, right, operator)

new_bai(expr) == Statement_new("Bai", <<>>, <<>>, <<>>, <<expr>>, Token_none, <<>>)

\* for_statement, "Put everything together": init_statement is an Option
for_desugar(init_statement, condition_expr, increment_expr, body) ==
    LET body_branch == IF increment_expr.expr_type # "None"
                       THEN new_block(<<body, new_expression(increment_expr)>>)
                       ELSE body
        loop == new_while(condition_expr, body_branch)
    IN IF init_statement # <<>> THEN new_block(<<init_statement[1], loop>>) ELSE loop

\* what statement() builds from what the function it called returned
statement_new(keyword, parsed) ==
    CASE keyword = "If" -> new_if(parsed[1], parsed[2], parsed[3])
      [] keyword = "While" -> new_while(parsed[1], parsed[2])
      [] keyword = "Return" -> new_return(parsed[1], parsed[2])
      [] keyword = "Print" -> new_print(parsed)
      [] keyword = "Println" -> new_println(parsed)
      [] keyword = "Bai" -> new_bai(parsed)
      [] keyword = "LeftBrace" -> new_block(parsed)
      [] OTHER -> new_expression(parsed)

Parser_new(tokens) == [tokens |-> tokens, current |-> 0]

----------------------------------------------------------------------------
(* The evaluator as a machine *)

Frame(kind, node) == [kind |-> kind, node |-> node, pc |-> 0, i |-> 0, vals |-> <<>>]

Top == stack[Len(stack)]
Running == status = "run" /\ Len(stack) > 0
IsStmt(t) == Running /\ Top.kind = "stmt" /\ Top.node.statement_type = t
IsExpr(t) == Running /\ Top.kind = "expr" /\ Top.node.expr_type = t

\* the step being taken, with the value the caller received from its callee
Step(op) ==
    last' = [op |-> op, node |-> Top.node, pc |-> Top.pc, i |-> Top.i,
             depth |-> Len(stack), arg |-> ret, vals |-> Top.vals]

\* call a sub-evaluation and resume at pc with the temporaries vals
Eval(kind, node, pc, vals) ==
    stack' = Append([stack EXCEPT ![Len(stack)] = [@ EXCEPT !.pc = pc, !.vals = vals]],
                    Frame(kind, node))
\* return literal to the caller
Yield(literal) ==
    /\ stack' = SubSeq(stack, 1, Len(stack) - 1)
    /\ ret' = literal
\* print_error / print_custom_error: the diagnostic, then process::exit
Fatal(message) ==
    /\ status' = "fatal"
    /\ err' = message
    /\ UNCHANGED <<envs, stack, ret, out>>

----------------------------------------------------------------------------
(* lib.rs: run() evaluates the parsed statements in order *)

Run ==
    /\ Running /\ Top.kind = "run"
    /\ Step("Run")
    /\ IF Top.i < Len(Top.node)
       THEN /\ stack' = Append([stack EXCEPT ![Len(stack)].i = @ + 1],
                               Frame("stmt", Top.node[Top.i + 1]))
            /\ UNCHANGED <<status>>
       ELSE /\ status' = "done"
            /\ UNCHANGED <<stack>>
    /\ UNCHANGED <<pid, envs, ret, out, err>>

\* let tokens = scanner_struct.scan_tokens(): one turn of its loop, or its end
Scan ==
    /\ Running /\ Top.kind = "scan"
    /\ LET S == Top.node
           at_end == Scanner_is_at_end(S)
           scanned == IF at_end THEN push_eof(S) ELSE scan_token([S EXCEPT !.start = S.current])
       IN /\ Step(IF at_end THEN "scan_tokens" ELSE "scan_token")
          /\ IF scanned.err # "" THEN Fatal(scanned.err)
             ELSE /\ stack' = IF at_end THEN << Frame("parse", Parser_new(scanned.tokens)) >>
                              ELSE << [Top EXCEPT !.node = scanned] >>
                  /\ UNCHANGED <<envs, ret, out, status, err>>
    /\ UNCHANGED pid

----------------------------------------------------------------------------
(* parser.rs: Parser as a machine.  The Parser struct is the node of the
   bottom frame; each function of Parser that is running has a frame whose
   node is its name, and returns what it built in ret.  print_error ends the
   process. *)

parser_struct == stack[1].node
\* n is the number of tokens the step has consumed so far
Parser_peek(n) == parser_struct.tokens[parser_struct.current + n + 1]
Parser_is_at_end(n) == Parser_peek(n).token_type = "Eof"
check(n, token_type) == ~Parser_is_at_end(n) /\ Parser_peek(n).token_type = token_type
\* true when the next token is one of expected: the step then consumes it
check_next_tokens(n, expected) == \E token_type \in expected : check(n, token_type)

PFrame(method, arguments) ==
    [kind |-> "parser", node |-> method, pc |-> 0, i |-> 0, vals |-> arguments]
IsParser(method) == Running /\ Top.kind = "parser" /\ Top.node = method
\* the stack once n tokens are consumed
Advanced(n) == [stack EXCEPT ![1].node.current = @ + n]
\* consume n tokens and stay in the function, at pc with the temporaries vals
PStay(n, pc, vals) ==
    /\ stack' = [Advanced(n) EXCEPT ![Len(stack)] = [@ EXCEPT !.pc = pc, !.vals = vals]]
    /\ UNCHANGED <<envs, ret, out, status, err>>
\* consume n tokens and call self.method(arguments), to resume at pc
PCall(n, method, arguments, pc, vals) ==
    /\ stack' = Append([Advanced(n) EXCEPT ![Len(stack)] = [@ EXCEPT !.pc = pc, !.vals = vals]],
                       PFrame(method, arguments))
    /\ UNCHANGED <<envs, ret, out, status, err>>
\* consume n tokens and return self.method(arguments)
PTail(n, method, arguments) ==
    /\ stack' = [Advanced(n) EXCEPT ![Len(stack)] = PFrame(method, arguments)]
    /\ UNCHANGED <<envs, ret, out, status, err>>
\* consume n tokens and return node
PYield(n, node) ==
    /\ stack' = SubSeq(Advanced(n), 1, Len(stack) - 1)
    /\ ret' = node
    /\ UNCHANGED <<envs, out, status, err>>

\* let statements = parser_struct.parse(); then each is evaluated
Parse ==
    /\ Running /\ Top.kind = "parse"
    /\ Step("Parser::parse")
    /\ IF Top.pc = 1 THEN PStay(0, 0, Append(Top.vals, ret))
       ELSE IF ~Parser_is_at_end(0) THEN PCall(0, "declaration", <<>>, 1, Top.vals)
       ELSE /\ stack' = << Frame("run", Top.vals) >>
            /\ UNCHANGED <<envs, ret, out, status, err>>
    /\ UNCHANGED pid

Parser_declaration ==
    /\ IsParser("declaration")
    /\ Step("Parser::declaration")
    /\ IF check(0, "Fn") THEN PTail(1, "function_declaration", <<>>)
       ELSE IF check(0, "Let") THEN PTail(1, "let_declaration", <<>>)
       ELSE PTail(0, "statement", <<>>)
    /\ UNCHANGED pid

\* vals: the name of the function, then its arguments
Parser_function_declaration ==
    /\ IsParser("function_declaration")
    /\ Step("Parser::function_declaration")
    /\ CASE Top.pc = 0 ->
              IF ~check(0, "Identifier") THEN Fatal("ExpectFunctionName")
              ELSE IF ~check(1, "LeftParen") THEN Fatal("ExpectLeftParen")
              ELSE PStay(2, IF check(2, "RightParen") THEN 2 ELSE 1, << Parser_peek(0) >>)
         [] Top.pc = 1 ->
              IF Len(Top.vals) - 1 >= 255 THEN Fatal("TooManyArguments")
              ELSE IF ~check(0, "Identifier") THEN Fatal("ExpectArgumentName")
              ELSE IF check(1, "Comma") THEN PStay(2, 1, Append(Top.vals, Parser_peek(0)))
              ELSE PStay(1, 2, Append(Top.vals, Parser_peek(0)))
         [] Top.pc = 2 ->
              IF ~check(0, "RightParen") THEN Fatal("ExpectRightParen")
              ELSE IF ~check(1, "LeftBrace") THEN Fatal("ExpectLeftBrace")
              ELSE PCall(2, "block", <<>>, 3, Top.vals)
         [] Top.pc = 3 ->
              PYield(0, Statement_new_function(new_block(ret), Top.vals[1], Tail(Top.vals)))
    /\ UNCHANGED pid

\* vals: the name of the variable
Parser_let_declaration ==
    /\ IsParser("let_declaration")
    /\ Step("Parser::let_declaration")
    /\ LET initialisation == IF Top.pc = 1 THEN ret ELSE Expr_none
       IN IF Top.pc = 0 /\ ~check(0, "Identifier") THEN Fatal("ExpectVariableName")
          ELSE IF Top.pc = 0 /\ check(1, "Equal")
          THEN PCall(2, "expression", <<>>, 1, << Parser_peek(0) >>)
          ELSE IF ~check(1 - Top.pc, "Semicolon") THEN Fatal("ExpectSemicolon")
          ELSE PYield(2 - Top.pc,
                      new_let(initialisation, IF Top.pc = 1 THEN Top.vals[1] ELSE Parser_peek(0)))
    /\ UNCHANGED pid

\* vals: the keyword of the statement
Parser_statement ==
    /\ IsParser("statement")
    /\ Step("Parser::statement")
    /\ LET keyword == IF Top.pc = 1 THEN Top.vals[1]
                      ELSE IF Parser_is_at_end(0) THEN "Eof" ELSE Parser_peek(0).token_type
           include_semicolon == keyword \notin {"If", "While", "LeftBrace"}
       IN IF Top.pc = 0
          THEN CASE keyword = "For" -> PTail(1, "for_statement", <<>>)
                 [] keyword = "If" -> PCall(1, "if_statement", <<>>, 1, << keyword >>)
                 [] keyword = "While" -> PCall(1, "while_statement", <<>>, 1, << keyword >>)
                 [] keyword = "Return" -> PCall(1, "return_statement", <<>>, 1, << keyword >>)
                 [] keyword = "Break" ->
                      IF check(1, "Semicolon") THEN PYield(2, Statement_new_break)
                      ELSE Fatal("ExpectSemicolon")
                 [] keyword = "Continue" ->
                      IF check(1, "Semicolon") THEN PYield(2, Statement_new_continue)
                      ELSE Fatal("ExpectSemicolon")
                 [] keyword \in {"Print", "Println", "Bai"} ->
                      PCall(1, "expression", <<>>, 1, << keyword >>)
                 [] keyword = "LeftBrace" -> PCall(1, "block", <<>>, 1, << keyword >>)
                 [] OTHER -> PCall(0, "expression", <<>>, 1, << "Expression" >>)
          \* Check if variable exists prematurely: e.evaluate_expr()
          ELSE IF keyword = "Expression" /\ ret.expr_type = "Variable"
                  /\ ~get_variable(envs, ret.operator).found
          THEN Fatal("is an undefined variable")
          ELSE IF include_semicolon /\ ~check(0, "Semicolon") THEN Fatal("ExpectSemicolon")
          ELSE PYield(IF include_semicolon THEN 1 ELSE 0, statement_new(keyword, ret))
    /\ UNCHANGED pid

\* vals: condition_expr, then then_branch; returns them with the Option else_branch
Parser_if_statement ==
    /\ IsParser("if_statement")
    /\ Step("Parser::if_statement")
    /\ CASE Top.pc = 0 ->
              IF check(0, "LeftParen") THEN PCall(1, "expression", <<>>, 1, <<>>)
              ELSE Fatal("ExpectLeftParen")
         [] Top.pc = 1 ->
              IF check(0, "RightParen") THEN PCall(1, "statement", <<>>, 2, << ret >>)
              ELSE Fatal("ExpectRightParen")
         [] Top.pc = 2 ->
              IF check(0, "Else") THEN PCall(1, "statement", <<>>, 3, << Top.vals[1], ret >>)
              ELSE PYield(0, << Top.vals[1], ret, <<>> >>)
         [] Top.pc = 3 -> PYield(0, << Top.vals[1], Top.vals[2], << ret >> >>)
    /\ UNCHANGED pid

\* vals: condition_expr; returns it with body_branch
Parser_while_statement ==
    /\ IsParser("while_statement")
    /\ Step("Parser::while_statement")
    /\ CASE Top.pc = 0 ->
              IF check(0, "LeftParen") THEN PCall(1, "expression", <<>>, 1, <<>>)
              ELSE Fatal("ExpectLeftParen")
         [] Top.pc = 1 ->
              IF check(0, "RightParen") THEN PCall(1, "statement", <<>>, 2, << ret >>)
              ELSE Fatal("ExpectRightParen")
         [] Top.pc = 2 -> PYield(0, << Top.vals[1], ret >>)
    /\ UNCHANGED pid

\* vals: the Option init_statement, then condition_expr, then increment_expr
Parser_for_statement ==
    /\ IsParser("for_statement")
    /\ Step("Parser::for_statement")
    /\ CASE Top.pc = 0 ->
              \* Initialisation
              IF ~check(0, "LeftParen") THEN Fatal("ExpectLeftParen")
              ELSE IF check(1, "Semicolon") THEN PStay(2, 3, << <<>> >>)
              ELSE IF check(1, "Let") THEN PCall(2, "let_declaration", <<>>, 1, <<>>)
              ELSE PCall(1, "expression", <<>>, 2, <<>>)
         [] Top.pc = 1 -> PStay(0, 3, << << ret >> >>)
         [] Top.pc = 2 ->
              IF check(0, "Semicolon") THEN PStay(1, 3, << << new_expression(ret) >> >>)
              ELSE Fatal("ExpectSemicolon")
         [] Top.pc = 3 ->
              \* Conditional
              IF ~check(0, "Semicolon") THEN PCall(0, "expression", <<>>, 4, Top.vals)
              ELSE IF check(1, "Semicolon")
              THEN PStay(2, 5, Append(Top.vals, Expr_literal(Literal_bool(TRUE))))
              ELSE Fatal("ExpectSemicolon")
         [] Top.pc = 4 ->
              IF check(0, "Semicolon") THEN PStay(1, 5, Append(Top.vals, ret))
              ELSE Fatal("ExpectSemicolon")
         [] Top.pc = 5 ->
              \* Increment
              IF ~check(0, "RightParen") THEN PCall(0, "expression", <<>>, 6, Top.vals)
              ELSE IF check(1, "RightParen")
              THEN PCall(2, "statement", <<>>, 7, Append(Top.vals, Expr_none))
              ELSE Fatal("InvalidForLoop")
         [] Top.pc = 6 ->
              IF check(0, "RightParen") THEN PCall(1, "statement", <<>>, 7, Append(Top.vals, ret))
              ELSE Fatal("InvalidForLoop")
         [] Top.pc = 7 ->
              PYield(0, for_desugar(Top.vals[1], Top.vals[2], Top.vals[3], ret))
    /\ UNCHANGED pid

\* returns keyword with expr
Parser_return_statement ==
    /\ IsParser("return_statement")
    /\ Step("Parser::return_statement")
    /\ IF Top.pc = 1 THEN PYield(0, << Top.vals[1], ret >>)
       ELSE IF check(0, "Semicolon") THEN PYield(0, << Parser_peek(0 - 1), Expr_none >>)
       ELSE PCall(0, "expression", <<>>, 1, << Parser_peek(0 - 1) >>)
    /\ UNCHANGED pid

\* vals: statements
Parser_block ==
    /\ IsParser("block")
    /\ Step("Parser::block")
    /\ IF Top.pc = 1 THEN PStay(0, 0, Append(Top.vals, ret))
       ELSE IF ~check(0, "RightBrace") /\ ~Parser_is_at_end(0)
       THEN PCall(0, "declaration", <<>>, 1, Top.vals)
       ELSE IF check(0, "RightBrace") THEN PYield(1, Top.vals)
       ELSE Fatal("ExpectRightBrace")
    /\ UNCHANGED pid

Parser_expression ==
    /\ IsParser("expression")
    /\ Step("Parser::expression")
    /\ PTail(0, "assignment", <<>>)
    /\ UNCHANGED pid

\* vals: expr
Parser_assignment ==
    /\ IsParser("assignment")
    /\ Step("Parser::assignment")
    /\ CASE Top.pc = 0 -> PCall(0, "or", <<>>, 1, <<>>)
         [] Top.pc = 1 ->
              IF ~check(0, "Equal") THEN PYield(0, ret)
              ELSE IF ret.expr_type = "Variable" THEN PCall(1, "assignment", <<>>, 2, << ret >>)
              ELSE IF ret.expr_type = "ArrayAccess" THEN PCall(1, "or", <<>>, 3, << ret >>)
              ELSE Fatal("InvalidAssignment")
         [] Top.pc = 2 -> PYield(0, Expr_assign(ret, Top.vals[1].operator))
         [] Top.pc = 3 ->
              PYield(0, array_assign(Top.vals[1].right[1], ret, Top.vals[1].left[1].operator))
    /\ UNCHANGED pid

\* or, and, equality, comparison, term, factor.  vals: expr and operator
Parser_binary ==
    /\ Running /\ Top.kind = "parser"
    /\ \E level \in {Parser_levels[n] : n \in 1..Len(Parser_levels)} :
          /\ Top.node = level
          /\ Step("Parser::binary")
          /\ LET expr == IF Top.vals = <<>> THEN ret
                         ELSE Parser_level_expr(level, Top.vals[1], ret, Top.vals[2])
             IN IF Top.pc = 0 THEN PCall(0, Parser_level_operand(level), <<>>, 1, <<>>)
                ELSE IF check_next_tokens(0, Parser_level_tokens(level))
                THEN PCall(1, Parser_level_operand(level), <<>>, 1, << expr, Parser_peek(0) >>)
                ELSE PYield(0, expr)
    /\ UNCHANGED pid

\* vals: array_values
Parser_array_creation ==
    /\ IsParser("array_creation")
    /\ Step("Parser::array_creation")
    /\ LET array_values == IF Top.pc = 1 THEN Append(Top.vals, ret) ELSE <<>>
           n == IF Top.pc = 0 THEN 1 ELSE 0
       IN IF Top.pc = 0 /\ ~check(0, "LeftBracket") THEN PTail(0, "unary", <<>>)
          ELSE IF Top.pc = 0 /\ ~check(1, "RightBracket")
          THEN PCall(1, "expression", <<>>, 1, array_values)
          ELSE IF Top.pc = 1 /\ check(0, "Comma")
          THEN PCall(1, "expression", <<>>, 1, array_values)
          ELSE IF ~check(n, "RightBracket") THEN Fatal("ExpectRightBracket")
          ELSE PYield(n + 1, array_creation(Parser_peek(n), array_values))
    /\ UNCHANGED pid

\* vals: operator
Parser_unary ==
    /\ IsParser("unary")
    /\ Step("Parser::unary")
    /\ IF Top.pc = 1 THEN PYield(0, Expr_unary(ret, Top.vals[1]))
       ELSE IF check_next_tokens(0, {"Bang", "Minus"})
       THEN PCall(1, "unary", <<>>, 1, << Parser_peek(0) >>)
       ELSE PTail(0, "array_access", <<>>)
    /\ UNCHANGED pid

\* vals: expr, the array reference
Parser_array_access ==
    /\ IsParser("array_access")
    /\ Step("Parser::array_access")
    /\ CASE Top.pc = 0 -> PCall(0, "primary", <<>>, 1, <<>>)
         [] Top.pc = 1 ->
              IF ~check(0, "LeftBracket") THEN PTail(0, "call", << ret >>)
              ELSE IF check(1, "RightBracket") THEN Fatal("NoArrayAccessIndex")
              ELSE PCall(1, "expression", <<>>, 2, << ret >>)
         [] Top.pc = 2 ->
              IF check(0, "Comma") THEN Fatal("ArrayAccessComma")
              ELSE IF ~check(0, "RightBracket") THEN Fatal("ExpectRightBracket")
              ELSE PYield(1, array_access(Top.vals[1], ret, Parser_peek(0)))
    /\ UNCHANGED pid

\* vals: expr
Parser_call ==
    /\ IsParser("call")
    /\ Step("Parser::call")
    /\ IF Top.pc = 1 THEN PStay(0, 0, << ret >>)
       ELSE IF check(0, "LeftParen") THEN PCall(1, "finish_call", Top.vals, 1, Top.vals)
       ELSE PYield(0, Top.vals[1])
    /\ UNCHANGED pid

\* vals: callee, then arguments
Parser_finish_call ==
    /\ IsParser("finish_call")
    /\ Step("Parser::finish_call")
    /\ LET vals == IF Top.pc = 1 THEN Append(Top.vals, ret) ELSE Top.vals
       IN IF (Top.pc = 0 /\ ~check(0, "RightParen")) \/ (Top.pc = 1 /\ check(0, "Comma"))
          THEN IF Len(vals) - 1 >= 255 THEN Fatal("TooManyArguments")
               ELSE PCall(Top.pc, "expression", <<>>, 1, vals)
          ELSE IF ~check(0, "RightParen") THEN Fatal("ExpectRightParen")
          ELSE PYield(1, Expr_call(vals[1], Parser_peek(0), Tail(vals)))
    /\ UNCHANGED pid

Parser_primary ==
    /\ IsParser("primary")
    /\ Step("Parser::primary")
    /\ LET tok == Parser_peek(0)
           token_type == IF Parser_is_at_end(0) THEN "Eof" ELSE tok.token_type
       IN IF Top.pc = 1
          THEN IF check(0, "RightParen") THEN PYield(1, Expr_grouping(ret))
               ELSE Fatal("ExpectRightParen")
          ELSE CASE token_type = "Null" -> PYield(1, Expr_literal(Literal_null))
                 [] token_type = "False" -> PYield(1, Expr_literal(Literal_bool(FALSE)))
                 [] token_type = "True" -> PYield(1, Expr_literal(Literal_bool(TRUE)))
                 [] token_type = "Number" ->
                      PYield(1, Expr_literal(Literal_number(string_to_float(tok.literal))))
                 [] token_type = "String" ->
                      PYield(1, Expr_literal(Literal_string(string(tok.literal))))
                 [] token_type = "LeftParen" -> PCall(1, "expression", <<>>, 1, <<>>)
                 [] token_type = "Identifier" -> PYield(1, Expr_variable(tok))
                 [] OTHER -> Fatal("ExpectExpression")
    /\ UNCHANGED pid

----------------------------------------------------------------------------
(* ast.rs: Statement::evaluate_statement, one action per arm *)

\* the conditions of the Block, If and While arms on a child's result
Block_breaks(literal) == literal.literal_type = "Break" \/ literal.is_return
\* mutant: the Block arm does not look for Continue
Block_continues_never(literal) == FALSE
Block_continues(literal) == literal.literal_type = "Continue"
If_propagates(result) ==
    result.literal_type = "Break" \/ result.literal_type = "Continue" \/ result.is_return
While_breaks(result) == result.literal_type = "Break"
\* mutant: the While arm returns what its body returned
While_result_leaks(result) == result
\* what the While arm returns once its loop has ended
While_result(result) == Literal_none

Stmt_Function ==
    /\ IsStmt("Function")
    /\ Step("Function")
    /\ LET s == Top.node
           closure_env == get_env(envs)
           new_user_function == new_user(s.tokens, s.then_branch, closure_env, s.token_name)
       IN /\ envs' = define_top(envs, s.token_name.lexeme, Literal_new_function(new_user_function))
          /\ Yield(Literal_none)
    /\ UNCHANGED <<pid, out, status, err>>

Stmt_Return ==
    /\ IsStmt("Return")
    /\ Step("Return")
    /\ IF Top.pc = 0
       THEN Eval("expr", Top.node.expr[1], 1, <<>>) /\ UNCHANGED ret
       ELSE Yield([ret EXCEPT !.is_return = TRUE])
    /\ UNCHANGED <<pid, envs, out, status, err>>

Stmt_Block ==
    /\ IsStmt("Block")
    /\ Step("Block")
    /\ LET s == Top.node
           literal == ret
           ran == Top.pc = 1 /\ Top.i > 0
       IN IF Top.pc = 0
          THEN /\ envs' = create_env(envs)
               /\ stack' = [stack EXCEPT ![Len(stack)].pc = 1]
               /\ UNCHANGED ret
          ELSE IF ran /\ Block_breaks(literal)
          THEN /\ envs' = destroy_env(envs)
               /\ Yield(literal)
          ELSE IF ran /\ Block_continues(literal)
          THEN /\ envs' = destroy_env(envs)
               /\ Yield(Literal_new_continue)
          ELSE IF Top.i < Len(s.statements)
          THEN /\ stack' = Append([stack EXCEPT ![Len(stack)].i = @ + 1],
                                  Frame("stmt", s.statements[Top.i + 1]))
               /\ UNCHANGED <<envs, ret>>
          ELSE /\ envs' = destroy_env(envs)
               /\ Yield(Literal_none)
    /\ UNCHANGED <<pid, out, status, err>>

Stmt_Expression ==
    /\ IsStmt("Expression")
    /\ Step("Expression")
    /\ IF Top.pc = 0
       THEN Eval("expr", Top.node.expr[1], 1, <<>>) /\ UNCHANGED ret
       ELSE Yield(ret)
    /\ UNCHANGED <<pid, envs, out, status, err>>

Stmt_If ==
    /\ IsStmt("If")
    /\ Step("If")
    /\ LET s == Top.node
           condition_literal == ret
       IN IF Top.pc = 0
          THEN Eval("expr", s.expr[1], 1, <<>>) /\ UNCHANGED <<ret, status, err>>
          ELSE IF Top.pc = 1
          THEN IF ~is_truthy(condition_literal)
               THEN Fatal("'If' conditional cannot be applied")
               ELSE IF string_to_bool(condition_literal)
               THEN Eval("stmt", s.then_branch[1], 2, <<>>) /\ UNCHANGED <<ret, status, err>>
               ELSE IF Len(s.else_branch) > 0
               THEN Eval("stmt", s.else_branch[1], 2, <<>>) /\ UNCHANGED <<ret, status, err>>
               ELSE Yield(Literal_none) /\ UNCHANGED <<status, err>>
          ELSE /\ Yield(IF If_propagates(ret) THEN ret ELSE Literal_none)
               /\ UNCHANGED <<status, err>>
    /\ UNCHANGED <<pid, envs, out>>

Stmt_While ==
    /\ IsStmt("While")
    /\ Step("While")
    /\ LET s == Top.node
           condition_literal == ret
           result == ret
       IN IF Top.pc = 0 \/ (Top.pc = 2 /\ ~While_breaks(result))
          THEN Eval("expr", s.expr[1], 1, <<>>) /\ UNCHANGED <<ret, status, err>>
          ELSE IF Top.pc = 1
          THEN IF ~is_truthy(condition_literal)
               THEN Fatal("'While' conditional cannot be applied")
               ELSE IF string_to_bool(condition_literal)
               THEN Eval("stmt", s.then_branch[1], 2, <<>>) /\ UNCHANGED <<ret, status, err>>
               ELSE Yield(While_result(ret)) /\ UNCHANGED <<status, err>>
          ELSE Yield(While_result(result)) /\ UNCHANGED <<status, err>>
    /\ UNCHANGED <<pid, envs, out>>

Stmt_Break ==
    /\ IsStmt("Break")
    /\ Step("Break")
    /\ Yield(Literal_new_break)
    /\ UNCHANGED <<pid, envs, out, status, err>>

Stmt_Continue ==
    /\ IsStmt("Continue")
    /\ Step("Continue")
    /\ Yield(Literal_new_continue)
    /\ UNCHANGED <<pid, envs, out, status, err>>

Stmt_Print ==
    /\ Running /\ Top.kind = "stmt" /\ Top.node.statement_type \in {"Print", "Println"}
    /\ Step(Top.node.statement_type)
    /\ IF Top.pc = 0
       THEN Eval("expr", Top.node.expr[1], 1, <<>>) /\ UNCHANGED <<ret, out, status, err>>
       ELSE IF ret.literal_type = "Array" /\ Len(ret.array_values) = 0
       THEN \* array_values.get(0).unwrap() panics on an empty array
            /\ status' = "fatal"
            /\ err' = "called Option::unwrap() on a None value"
            /\ UNCHANGED <<stack, ret, out>>
       ELSE /\ out' = out \o print(ret, Top.node.statement_type = "Println")
            /\ Yield(Literal_none)
            /\ UNCHANGED <<status, err>>
    /\ UNCHANGED <<pid, envs>>

\* the farewell of bai for the codes 0..4, else the value itself
bai_text(literal) ==
    LET value == value_text(literal)
    IN CASE value = "0" -> ""
         [] value = "1" -> "\nPoof"
         [] value = "2" -> "\nI lub Ariana"
         [] value = "3" -> "\nBye Nigga"
         [] value = "4" -> "\nStop messing around with this function"
         [] OTHER -> value

Stmt_Bai ==
    /\ IsStmt("Bai")
    /\ Step("Bai")
    /\ IF Top.pc = 0
       THEN Eval("expr", Top.node.expr[1], 1, <<>>) /\ UNCHANGED <<ret, out, status, err>>
       ELSE \* print_yellow, then ari_errors::exit()
            /\ out' = Append(out, [text |-> bai_text(ret), newline |-> TRUE])
            /\ status' = "exit"
            /\ UNCHANGED <<stack, ret, err>>
    /\ UNCHANGED <<pid, envs>>

\* mutant: the Let arm binds the function under the name it had
Let_value_untagged(literal, token_name) == literal

\* the literal the Let arm binds: a Function is told the name it is bound to
Let_value(literal, token_name) ==
    IF literal.literal_type = "Function"
    THEN [literal EXCEPT !.function = << [literal.function[1] EXCEPT !.variable_token = token_name] >>]
    ELSE literal

Stmt_Let ==
    /\ IsStmt("Let")
    /\ Step("Let")
    /\ LET s == Top.node
       IN IF Top.pc = 0
          THEN IF s.expr[1].expr_type = "None"
               THEN Fatal("Invalid variable definition")
               ELSE Eval("expr", s.expr[1], 1, <<>>) /\ UNCHANGED <<envs, ret, status, err>>
          ELSE LET literal == Let_value(ret, s.token_name)
               IN /\ envs' = define_top(envs, s.token_name.lexeme, literal)
                  /\ Yield(literal)
                  /\ UNCHANGED <<status, err>>
    /\ UNCHANGED <<pid, out>>

----------------------------------------------------------------------------
(* ast.rs: Expr::evaluate_expr, one action per arm *)

Expr_Literal ==
    /\ IsExpr("Literal")
    /\ Step("Literal")
    /\ Yield(Top.node.literal)
    /\ UNCHANGED <<pid, envs, out, status, err>>

\* the empty expression placeholder evaluates to Literal::none()
Expr_None ==
    /\ IsExpr("None")
    /\ Step("None")
    /\ Yield(Literal_none)
    /\ UNCHANGED <<pid, envs, out, status, err>>

Expr_Grouping ==
    /\ IsExpr("Grouping")
    /\ Step("Grouping")
    /\ IF Top.pc = 0
       THEN Eval("expr", Top.node.right[1], 1, <<>>) /\ UNCHANGED ret
       ELSE Yield(ret)
    /\ UNCHANGED <<pid, envs, out, status, err>>

Expr_Variable ==
    /\ IsExpr("Variable")
    /\ Step("Variable")
    /\ LET r == get_variable(envs, Top.node.operator)
       IN IF r.found
          THEN Yield(r.literal) /\ UNCHANGED <<envs, out, status, err>>
          ELSE Fatal("is an undefined variable")
    /\ UNCHANGED pid

Expr_Assign ==
    /\ IsExpr("Assign")
    /\ Step("Assign")
    /\ IF Top.pc = 0
       THEN Eval("expr", Top.node.right[1], 1, <<>>) /\ UNCHANGED <<envs, ret, out, status, err>>
       ELSE LET literal_value == ret
                a == assign_variable(envs, Top.node.operator, literal_value)
            IN IF a.found
               THEN /\ envs' = a.envs
                    /\ Yield(Literal_none)
                    /\ UNCHANGED <<out, status, err>>
               ELSE Fatal("variable cannot be found in this scope")
    /\ UNCHANGED pid

Expr_Binary ==
    /\ IsExpr("Binary")
    /\ Step("Binary")
    /\ IF Top.pc = 0
       THEN Eval("expr", Top.node.left[1], 1, <<>>) /\ UNCHANGED <<ret, status, err>>
       ELSE IF Top.pc = 1
       THEN Eval("expr", Top.node.right[1], 2, <<ret>>) /\ UNCHANGED <<ret, status, err>>
       ELSE LET r == binary(Top.node.operator.token_type, Top.vals[1], ret)
            IN IF r.ok
               THEN Yield(r.literal) /\ UNCHANGED <<status, err>>
               ELSE Fatal("binary operator cannot be applied")
    /\ UNCHANGED <<pid, envs, out>>

\* Both operand expressions are evaluated before the operator is looked at.
Expr_Logical ==
    /\ IsExpr("Logical")
    /\ Step("Logical")
    /\ IF Top.pc = 0
       THEN Eval("expr", Top.node.left[1], 1, <<>>) /\ UNCHANGED <<ret, status, err>>
       ELSE IF Top.pc = 1
       THEN Eval("expr", Top.node.right[1], 2, <<ret>>) /\ UNCHANGED <<ret, status, err>>
       ELSE LET left_literal == Top.vals[1]
                right_literal == ret
            IN IF Logical_type_error(left_literal, right_literal)
               THEN Fatal("'Logical' cannot be applied")
               ELSE IF Top.node.operator.token_type \notin {"Or", "And"}
               THEN Fatal("is not a logical operation")
               ELSE /\ Yield(Logical_result(Top.node.operator.token_type, left_literal, right_literal))
                    /\ UNCHANGED <<status, err>>
    /\ UNCHANGED <<pid, envs, out>>

Expr_Unary ==
    /\ IsExpr("Unary")
    /\ Step("Unary")
    /\ IF Top.pc = 0
       THEN Eval("expr", Top.node.right[1], 1, <<>>) /\ UNCHANGED <<ret, status, err>>
       ELSE LET r == unary(Top.node.operator.token_type, ret)
            IN IF r.ok
               THEN Yield(r.literal) /\ UNCHANGED <<status, err>>
               ELSE Fatal("unary operator cannot be applied")
    /\ UNCHANGED <<pid, envs, out>>

\* the index tests of ArrayAssign and ArrayAccess: a Number without a
\* fraction that is not negative
valid_index(index_literal) ==
    /\ index_literal.literal_type = "Number"
    /\ ~has_fract(index_literal.value)
    /\ as_i32(index_literal.value) >= 0

\* what ArrayAssign does to the vector (index_integer counts from 0):
\* ok = FALSE is a fatal exit
array_store(array_values, index_integer, literal_value) ==
    IF Len(array_values) = 0
    THEN IF index_integer = 0
         THEN [ok |-> TRUE, array_values |-> Append(array_values, literal_value)]
         ELSE [ok |-> FALSE, array_values |-> array_values]
    ELSE IF index_integer >= Len(array_values)
    THEN [ok |-> FALSE, array_values |-> array_values]
    ELSE IF array_values[1].literal_type # literal_value.literal_type
    THEN [ok |-> FALSE, array_values |-> array_values]
    ELSE [ok |-> TRUE, array_values |-> [array_values EXCEPT ![index_integer + 1] = literal_value]]

\* ArrayAssign: the array is read first, then the index and the value are
\* evaluated, and the changed copy is assigned back to the variable
Expr_ArrayAssign ==
    /\ IsExpr("ArrayAssign")
    /\ Step("ArrayAssign")
    /\ LET e == Top.node
       IN IF Top.pc = 0
          THEN LET r == get_variable(envs, e.operator)
               IN IF ~r.found
                  THEN Fatal("is an undefined variable")
                  ELSE IF r.literal.literal_type # "Array"
                  THEN Fatal("is not an array and cannot be indexed")
                  ELSE Eval("expr", e.left[1], 1, << r.literal >>)
                       /\ UNCHANGED <<envs, ret, out, status, err>>
          ELSE IF Top.pc = 1
          THEN IF ~valid_index(ret)
               THEN Fatal("is not a valid array index")
               ELSE Eval("expr", e.right[1], 2, Append(Top.vals, ret))
                    /\ UNCHANGED <<envs, ret, out, status, err>>
          ELSE LET array_reference == Top.vals[1]
                   index_integer == as_i32(Top.vals[2].value)
                   literal_value == ret
                   stored == array_store(array_reference.array_values, index_integer, literal_value)
                   a == assign_variable(envs, e.operator,
                                        [array_reference EXCEPT !.array_values = stored.array_values])
               IN IF ~stored.ok
                  THEN Fatal("Attempt to modify the array with a wrong index or type")
                  ELSE IF ~a.found
                  THEN Fatal("variable cannot be found in this scope")
                  ELSE /\ envs' = a.envs
                       /\ Yield(Literal_none)
                       /\ UNCHANGED <<out, status, err>>
    /\ UNCHANGED pid

\* ArrayCreation: the tag of every further element is that of the first
array_element_fits(values, value) ==
    Len(values) = 0 \/ values[1].literal_type = value.literal_type

Expr_ArrayCreation ==
    /\ IsExpr("ArrayCreation")
    /\ Step("ArrayCreation")
    /\ LET e == Top.node
           values == IF Top.pc = 0 THEN <<>> ELSE Append(Top.vals, ret)
       IN IF Top.pc = 1 /\ ~array_element_fits(Top.vals, ret)
          THEN Fatal("Array values are not of the same type")
          ELSE IF Len(values) < Len(e.arguments)
          THEN Eval("expr", e.arguments[Len(values) + 1], 1, values)
               /\ UNCHANGED <<ret, status, err>>
          ELSE Yield(Literal_new_array(values)) /\ UNCHANGED <<status, err>>
    /\ UNCHANGED <<pid, envs, out>>

Expr_ArrayAccess ==
    /\ IsExpr("ArrayAccess")
    /\ Step("ArrayAccess")
    /\ LET e == Top.node
       IN IF Top.pc = 0
          THEN Eval("expr", e.left[1], 1, <<>>) /\ UNCHANGED <<ret, status, err>>
          ELSE IF Top.pc = 1
          THEN IF ret.literal_type # "Array"
               THEN Fatal("is not an array and cannot be indexed")
               ELSE Eval("expr", e.right[1], 2, << ret >>) /\ UNCHANGED <<ret, status, err>>
          ELSE LET array_reference == Top.vals[1]
                   index_integer == as_i32(ret.value)
               IN IF ~valid_index(ret)
                  THEN Fatal("is not a valid array index")
                  ELSE IF index_integer >= Len(array_reference.array_values)
                  THEN Fatal("Attempt to access non-existent index in array")
                  ELSE Yield(array_reference.array_values[index_integer + 1])
                       /\ UNCHANGED <<status, err>>
    /\ UNCHANGED <<pid, envs, out>>

\* Call: the callee, then the arguments left to right, then the type and
\* arity tests, then Function::call
Expr_Call ==
    /\ IsExpr("Call")
    /\ Step("Call")
    /\ LET e == Top.node
       IN IF Top.pc = 0
          THEN Eval("expr", e.right[1], 1, <<>>) /\ UNCHANGED <<ret, status, err>>
          ELSE IF Top.pc = 1
          THEN LET vals == Append(Top.vals, ret)
                   callee == vals[1]
                   arguments == Tail(vals)
               IN IF Len(arguments) < Len(e.arguments)
                  THEN Eval("expr", e.arguments[Len(arguments) + 1], 1, vals)
                       /\ UNCHANGED <<ret, status, err>>
                  ELSE IF callee.literal_type # "Function"
                  THEN Fatal("is not a function that can be called")
                  ELSE IF arg_length(callee.function[1]) # Len(arguments)
                  THEN Fatal("Function expects a different number of arguments")
                  ELSE /\ stack' = Append([stack EXCEPT ![Len(stack)] = [@ EXCEPT !.pc = 2, !.vals = <<>>]],
                                          [Frame("call", callee.function[1]) EXCEPT !.vals = arguments])
                       /\ UNCHANGED <<ret, status, err>>
          ELSE Yield(ret) /\ UNCHANGED <<status, err>>
    /\ UNCHANGED <<pid, envs, out>>

----------------------------------------------------------------------------
(* function.rs: Function::call *)

\* what Function::call hands back for the result r of the function body
call_result(r) == r

\* mutant: the function is rebound with the closure it was called with
closure_after_call_stale(self, popped) == self.closure_env[1]

\* the closure the called function is rebound with: the frame on top of the
\* stack once the argument frame is gone
closure_after_call(self, popped) == get_env(popped)

Call_UserDefined ==
    /\ Running /\ Top.kind = "call" /\ Top.node.function_type = "UserDefined"
    /\ Step("call_user")
    /\ LET self == Top.node
       IN IF Top.pc = 0
          THEN /\ envs' = bind_arguments(create_env(add_env(envs, self.closure_env[1])),
                                         self, Top.vals, 1)
               /\ Eval("stmt", self.user_defined[1], 1, <<>>)
               /\ UNCHANGED <<ret, status, err>>
          ELSE LET r == ret
                   popped == destroy_env(envs)
                   cloned == closure_after_call(self, popped)
                   updated_function == [self EXCEPT !.closure_env = <<cloned>>]
                   a == assign_variable(destroy_env(popped), self.variable_token,
                                        Literal_new_function(updated_function))
               IN IF a.found
                  THEN /\ envs' = a.envs
                       /\ Yield(call_result(r))
                       /\ UNCHANGED <<status, err>>
                  ELSE /\ envs' = a.envs
                       /\ status' = "fatal"
                       /\ err' = "variable cannot be found in this scope"
                       /\ UNCHANGED <<stack, ret>>
    /\ UNCHANGED <<pid, out>>

Call_Native ==
    /\ Running /\ Top.kind = "call" /\ Top.node.function_type = "Native"
    /\ Top.node.native_type \in {"Max", "Min", "Absolute"}
    /\ Step("call_native")
    /\ LET r == call_native(Top.node, Top.vals)
       IN IF r.ok
          THEN /\ envs' = destroy_env(create_env(envs))
               /\ Yield(r.literal)
               /\ UNCHANGED <<status, err>>
          ELSE /\ envs' = create_env(envs)
               /\ status' = "fatal"
               /\ err' = "native function received an argument of the wrong type"
               /\ UNCHANGED <<stack, ret>>
    /\ UNCHANGED <<pid, out>>

\* map(source, function): between create_env and destroy_env of
\* Function::call, the function is called once per element, in index order,
\* and the results are collected as they come
Call_Map ==
    /\ Running /\ Top.kind = "call" /\ Top.node.function_type = "Native"
    /\ Top.node.native_type = "Map"
    /\ Step("map")
    /\ LET source == Top.vals[1]
           map_function == Top.vals[2]
           results == IF Top.pc = 0 THEN <<>> ELSE Append(SubSeq(Top.vals, 3, Len(Top.vals)), ret)
           E == IF Top.pc = 0 THEN create_env(envs) ELSE envs
       IN IF source.literal_type # "Array"
          THEN /\ envs' = E
               /\ status' = "fatal"
               /\ err' = "map() expects 1st argument (source) of type Array"
               /\ UNCHANGED <<stack, ret>>
          ELSE IF map_function.literal_type # "Function"
          THEN /\ envs' = E
               /\ status' = "fatal"
               /\ err' = "map() expects 2nd argument (function) of type Function"
               /\ UNCHANGED <<stack, ret>>
          ELSE IF arg_length(map_function.function[1]) # 1
          THEN /\ envs' = E
               /\ status' = "fatal"
               /\ err' = "map() expects a function with 1 argument"
               /\ UNCHANGED <<stack, ret>>
          ELSE IF Len(results) < Len(source.array_values)
          THEN /\ envs' = E
               /\ stack' = Append(
                     [stack EXCEPT ![Len(stack)] =
                         [@ EXCEPT !.pc = 1, !.vals = << source, map_function >> \o results]],
                     [Frame("call", map_function.function[1])
                         EXCEPT !.vals = << source.array_values[Len(results) + 1] >>])
               /\ UNCHANGED <<ret, status, err>>
          ELSE /\ envs' = destroy_env(E)
               /\ Yield(Literal_new_array(results))
               /\ UNCHANGED <<status, err>>
    /\ UNCHANGED <<pid, out>>

\* the native calls function.call(arguments) and waits for its result at pc,
\* with the temporaries vals and the index i of the element in progress
call_function(E, function_literal, arguments, pc, i, vals) ==
    /\ envs' = E
    /\ stack' = Append(
          [stack EXCEPT ![Len(stack)] = [@ EXCEPT !.pc = pc, !.i = i, !.vals = vals]],
          [Frame("call", function_literal.function[1]) EXCEPT !.vals = arguments])
    /\ UNCHANGED <<ret, status, err>>
\* print_custom_error, or a panic, inside a native
native_error(E, message) ==
    /\ envs' = E
    /\ status' = "fatal"
    /\ err' = message
    /\ UNCHANGED <<stack, ret>>

\* filter(source, function): between create_env and destroy_env of
\* Function::call.  pc 0: the checks, and the call on the first element that
\* tests the type of the result; pc 1: that test, and the first call of the
\* filter proper; pc 2: the result for element i (vals[3..] is the array
\* collected so far).  The String literals of the programs hold none of the
\* texts true, false and null, so that string_to_bool panics on every result
\* that is neither Bool nor Null.
Call_Filter ==
    /\ Running /\ Top.kind = "call" /\ Top.node.function_type = "Native"
    /\ Top.node.native_type = "Filter"
    /\ Step("filter")
    /\ LET source == Top.vals[1]
           filter_function == Top.vals[2]
           source_array == source.array_values
           E == IF Top.pc = 0 THEN create_env(envs) ELSE envs
           collected == SubSeq(Top.vals, 3, Len(Top.vals))
       IN IF Top.pc = 0
          THEN IF source.literal_type # "Array"
               THEN native_error(E, "filter() expects 1st argument (source) of type Array")
               ELSE IF filter_function.literal_type # "Function"
               THEN native_error(E, "filter() expects 2nd argument (function) of type Function")
               ELSE IF arg_length(filter_function.function[1]) # 1
               THEN native_error(E, "filter() expects a function with 1 argument")
               ELSE IF Len(source_array) > 0
               THEN call_function(E, filter_function, << source_array[1] >>, 1, 0,
                                  << source, filter_function >>)
               ELSE /\ envs' = destroy_env(E)
                    /\ Yield(Literal_new_array(<<>>))
                    /\ UNCHANGED <<status, err>>
          ELSE IF Top.pc = 1
          THEN IF ret.literal_type \notin {"Bool", "Null", "None"}
               THEN native_error(E, "filter() expects 2nd argument (function) to return Bool")
               ELSE call_function(E, filter_function, << source_array[1] >>, 2, 1, Top.vals)
          ELSE IF ret.literal_type \notin {"Bool", "Null", "None"}
          THEN native_error(E, "Boolean operation only handles 'true', 'false', 'null' values.")
          ELSE LET kept == IF ret.literal_type = "None" THEN FALSE ELSE string_to_bool(ret)
                   result_array == IF kept THEN Append(collected, source_array[Top.i])
                                   ELSE collected
               IN IF Top.i < Len(source_array)
                  THEN call_function(E, filter_function, << source_array[Top.i + 1] >>, 2,
                                     Top.i + 1, << source, filter_function >> \o result_array)
                  ELSE /\ envs' = destroy_env(E)
                       /\ Yield(Literal_new_array(result_array))
                       /\ UNCHANGED <<status, err>>
    /\ UNCHANGED <<pid, out>>

\* reduce(source, initial_value, function), in the same way.  pc 0: the
\* checks, and the call on the initial value and the first element that tests
\* the type of the result; pc 1: that test, and the first call of the fold;
\* pc 2: the result of the fold for element i
Call_Reduce ==
    /\ Running /\ Top.kind = "call" /\ Top.node.function_type = "Native"
    /\ Top.node.native_type = "Reduce"
    /\ Step("reduce")
    /\ LET source == Top.vals[1]
           initial_literal == Top.vals[2]
           filter_function == Top.vals[3]
           source_array == source.array_values
           E == IF Top.pc = 0 THEN create_env(envs) ELSE envs
       IN IF Top.pc = 0
          THEN IF source.literal_type # "Array"
               THEN native_error(E, "reduce() expects 1st argument (source) of type Array")
               ELSE IF filter_function.literal_type # "Function"
               THEN native_error(E, "reduce() expects 3rd argument (function) of type Function")
               ELSE IF arg_length(filter_function.function[1]) # 2
               THEN native_error(E, "reduce() expects a function with 2 arguments")
               ELSE IF Len(source_array) = 0
               THEN /\ envs' = destroy_env(E)
                    /\ Yield(initial_literal)
                    /\ UNCHANGED <<status, err>>
               ELSE IF initial_literal.literal_type # source_array[1].literal_type
               THEN native_error(E, "2nd argument (initial_value) of reduce() is of another type")
               ELSE call_function(E, filter_function, << initial_literal, source_array[1] >>,
                                  1, 0, Top.vals)
          ELSE IF Top.pc = 1
          THEN IF ret.literal_type # initial_literal.literal_type
               THEN native_error(E, "reduce() expects 3rd argument (function) to return another type")
               ELSE call_function(E, filter_function, << initial_literal, source_array[1] >>,
                                  2, 1, Top.vals)
          ELSE IF Top.i < Len(source_array)
          THEN call_function(E, filter_function, << ret, source_array[Top.i + 1] >>,
                             2, Top.i + 1, Top.vals)
          ELSE /\ envs' = destroy_env(E)
               /\ Yield(ret)
               /\ UNCHANGED <<status, err>>
    /\ UNCHANGED <<pid, out>>

\* the range checks of range(), in their order; "" when all of them pass
range_checks(start, end, step) ==
    IF start.literal_type # "Number"
    THEN "range() expects 1st argument (start) of type Number"
    ELSE IF end.literal_type # "Number"
    THEN "range() expects 2nd argument (end) of type Number"
    ELSE IF step.literal_type # "Number"
    THEN "is not a valid step for range()"
    ELSE IF step.value = float(0)
    THEN "range() expects a non-zero step"
    ELSE IF f32_lt(start.value, end.value) /\ f32_lt(step.value, float(0))
    THEN "range() expects a positive step"
    ELSE IF ~f32_lt(start.value, end.value) /\ f32_lt(float(0), step.value)
    THEN "range() expects a negative step"
    ELSE ""

\* one turn of the loop of range() after the push: the next start_float, and
\* whether the loop breaks on it
range_turn(increasing, start_float, end_float, step_float) ==
    LET next == IF increasing THEN f32_add(start_float, step_float)
                ELSE f32_sub(start_float, step_float)
    IN [start_float |-> next,
        break |-> IF increasing THEN f32_lt(end_float, next) ELSE f32_lt(next, end_float)]

\* range(start, end, step): between create_env and destroy_env of
\* Function::call.  At pc 0 the checks; from then on one turn of the loop per
\* step, with start_float in vals[4] and result_array behind it.  The String
\* literals of the programs hold no number text, so that string_to_float
\* panics on every step that is not a Number.
Call_Range ==
    /\ Running /\ Top.kind = "call" /\ Top.node.function_type = "Native"
    /\ Top.node.native_type = "Range"
    /\ Step("range")
    /\ LET start == Top.vals[1]
           end == Top.vals[2]
           step == Top.vals[3]
       IN IF Top.pc = 0
          THEN IF start.literal_type = "Number" /\ end.literal_type = "Number"
                  /\ step.literal_type # "Number"
               THEN \* string_to_float(&step) unwraps the parse of a text that is no number
                    /\ envs' = create_env(envs)
                    /\ status' = "fatal"
                    /\ err' = "called Result::unwrap() on an Err value"
                    /\ UNCHANGED <<stack, ret>>
               ELSE IF start.literal_type = "Number" /\ end.literal_type = "Number"
                       /\ start.value = end.value
               THEN /\ envs' = destroy_env(create_env(envs))
                    /\ Yield(Literal_new_array(<< start >>))
                    /\ UNCHANGED <<status, err>>
               ELSE IF range_checks(start, end, step) # ""
               THEN /\ envs' = create_env(envs)
                    /\ status' = "fatal"
                    /\ err' = range_checks(start, end, step)
                    /\ UNCHANGED <<stack, ret>>
               ELSE /\ envs' = create_env(envs)
                    /\ stack' = [stack EXCEPT ![Len(stack)] =
                                    [@ EXCEPT !.pc = 1, !.vals = << start, end, step, start >>]]
                    /\ UNCHANGED <<ret, status, err>>
          ELSE LET start_float == Top.vals[4].value
                   result_array == Append(SubSeq(Top.vals, 5, Len(Top.vals)),
                                          Literal_number(start_float))
                   increasing == f32_lt(start.value, end.value)
                   turn == range_turn(increasing, start_float, end.value, step.value)
               IN /\ Len(result_array) <= MaxRange
                  /\ IF turn.break
                     THEN /\ envs' = destroy_env(envs)
                          /\ Yield(Literal_new_array(result_array))
                     ELSE /\ stack' = [stack EXCEPT ![Len(stack)].vals =
                                          << start, end, step, Literal_number(turn.start_float) >>
                                          \o result_array]
                          /\ UNCHANGED <<envs, ret>>
                  /\ UNCHANGED <<status, err>>
    /\ UNCHANGED <<pid, out>>

----------------------------------------------------------------------------
(* The programs run() is given, as the parser builds them (parser.rs) *)

Op(token_type) == Token_new(token_type, "", <<>>)
Num(n) == Expr_literal(Literal_number(float(n)))
True == Expr_literal(Literal_bool(TRUE))
False == Expr_literal(Literal_bool(FALSE))
Null == Expr_literal(Literal_null)
Var(name) == Expr_variable(Ident(name))
Bin(l, token_type, r) == Expr_binary(l, r, Op(token_type))
Set(name, e) == new_expression(Expr_assign(e, Ident(name)))
Let(name, e) == new_let(e, Ident(name))
Call(name, args) == Expr_call(Var(name), Op("RightParen"), args)
Fn(name, params, body) ==
    Statement_new_function(new_block(body), Ident(name), [i \in DOMAIN params |-> Ident(params[i])])
Return(e) == new_return(Op("Return"), e)
Incr(name) == Set(name, Bin(Var(name), "Plus", Num(1)))
Frac(n, d) == Expr_literal(Literal_number(f32(n, d)))
Str(text) == Expr_literal(Literal_string(text))
Arr(array_values) == array_creation(Op("RightBracket"), array_values)
At(name, index_expr) == array_access(Var(name), index_expr, Op("RightBracket"))
SetAt(name, index_expr, value_expr) == new_expression(array_assign(index_expr, value_expr, Ident(name)))

\* fn mk(){ let c = 0; fn inc(){ c = c+1; return c; } return inc; }
\* let g = mk(); println g(); ... (MaxCalls times)
ProgClosure ==
    << Fn("mk", <<>>, << Let("c", Num(0)),
                         Fn("inc", <<>>, << Incr("c"), Return(Var("c")) >>),
                         Return(Var("inc")) >>),
       Let("g", Call("mk", <<>>)) >>
    \o [i \in 1..MaxCalls |-> new_println(Call("g", <<>>))]

\* fn f(){ return 1; } fn h(){ return; } let y = f(); h();
\* { let x = f(); println 7; } { f(); println 8; } println 9;
ProgCallInBlock ==
    << Fn("f", <<>>, << Return(Num(1)) >>),
       Fn("h", <<>>, << Return(Expr_none) >>),
       Let("y", Call("f", <<>>)),
       new_expression(Call("h", <<>>)),
       new_block(<< Let("x", Call("f", <<>>)), new_println(Num(7)) >>),
       new_block(<< new_expression(Call("f", <<>>)), new_println(Num(8)) >>),
       new_println(Num(9)) >>

\* fn f(){ let i = 0; while (i < LoopLimit) { i = i + 1; if (i == a) { return i; } }
\*         return 0 - 1; }
\* println f();
ProgWhileReturn(a) ==
    << Fn("f", <<>>,
          << Let("i", Num(0)),
             new_while(Bin(Var("i"), "Less", Num(LoopLimit)),
                new_block(<< Incr("i"),
                             new_if(Bin(Var("i"), "EqualEqual", Num(a)),
                                    new_block(<< Return(Var("i")) >>), <<>>) >>)),
             Return(Bin(Num(0), "Minus", Num(1))) >>),
       new_println(Call("f", <<>>)) >>

\* let i = 0;
\* while (i < LoopLimit) {
\*   let j = 0;
\*   while (true) { j = j + 1; { if (j == a) { { break; } } else println j; } println 50; }
\*   println 100 + j;
\*   i = i + 1;
\* }
\* println i;
ProgNestedBreak(a) ==
    << Let("i", Num(0)),
       new_while(Bin(Var("i"), "Less", Num(LoopLimit)),
          new_block(<<
             Let("j", Num(0)),
             new_while(True,
                new_block(<< Incr("j"),
                             new_block(<< new_if(Bin(Var("j"), "EqualEqual", Num(a)),
                                                 new_block(<< new_block(<< Statement_new_break >>) >>),
                                                 << new_println(Var("j")) >>) >>),
                             new_println(Num(50)) >>)),
             new_println(Bin(Num(100), "Plus", Var("j"))),
             Incr("i") >>)),
       new_println(Var("i")) >>

\* let k = 0;
\* while (k < 2) {
\*   k = k + 1;
\*   let i = 0;
\*   while (i < LoopLimit) { i = i + 1; { if (i == a) { continue; } println i; } println 0; }
\*   println 100;
\* }
ProgContinue(a) ==
    << Let("k", Num(0)),
       new_while(Bin(Var("k"), "Less", Num(2)),
          new_block(<<
             Incr("k"),
             Let("i", Num(0)),
             new_while(Bin(Var("i"), "Less", Num(LoopLimit)),
                new_block(<< Incr("i"),
                             new_block(<< new_if(Bin(Var("i"), "EqualEqual", Num(a)),
                                                 new_block(<< Statement_new_continue >>), <<>>),
                                          new_println(Var("i")) >>),
                             new_println(Num(0)) >>)),
             new_println(Num(100)) >>)) >>

\* let x = 1; let y = 5;
\* { let x = 2; println x; { let x = 3; println x; y = 6; } println x; }
\* println x;
ProgScope ==
    << Let("x", Num(1)), Let("y", Num(5)),
       new_block(<< Let("x", Num(2)), new_println(Var("x")),
                    new_block(<< Let("x", Num(3)), new_println(Var("x")), Set("y", Num(6)) >>),
                    new_println(Var("x")) >>),
       new_println(Var("x")) >>

\* let x = 1; let y = 5;
\* { let x = 2; { let z = 0; x = a; y = 6; z = 7; } println x; } println x; println y;
ProgAssign(a) ==
    << Let("x", Num(1)), Let("y", Num(5)),
       new_block(<< Let("x", Num(2)),
                    new_block(<< Let("z", Num(0)), Set("x", Num(a)), Set("y", Num(6)),
                                 Set("z", Num(7)) >>),
                    new_println(Var("x")) >>),
       new_println(Var("x")), new_println(Var("y")) >>

\* let x = 1; { let z = 1; { let w = 2; println z; } }  println z;   (a = 1)
\* let x = 1; { let z = 1; { let w = 2; z = 3;     } }  z = 2;       (a = 2)
ProgUndefined(a) ==
    << Let("x", Num(1)),
       new_block(<< Let("z", Num(1)),
                    new_block(<< Let("w", Num(2)),
                                 IF a = 1 THEN new_println(Var("z")) ELSE Set("z", Num(3)) >>) >>),
       IF a = 1 THEN new_println(Var("z")) ELSE Set("z", Num(2)) >>

\* the operands of the logical programs
Operand(o) ==
    CASE o = "true" -> True
      [] o = "false" -> False
      [] o = "null" -> Null
      [] o = "number" -> Num(5)
      [] o = "assign" -> Expr_grouping(Expr_assign(Num(1), Ident("a")))
      [] o = "call" -> Call("t", <<>>)
      [] o = "zero" -> Num(0)
      [] o = "one" -> Num(1)
      [] o = "two" -> Num(2)
      [] o = "half" -> Frac(1, 2)
      [] o = "neghalf" -> Frac(0 - 1, 2)
      [] o = "str" -> Str("a")
      [] o = "[]" -> Arr(<<>>)
      [] o = "[3]" -> Arr(<< Num(3) >>)
      [] o = "[1,2]" -> Arr(<< Num(1), Num(2) >>)
      [] o = "[2,0]" -> Arr(<< Num(2), Num(0) >>)
      [] o = "[1,half]" -> Arr(<< Num(1), Frac(1, 2) >>)
      [] o = "[a,b]" -> Arr(<< Str("a"), Str("b") >>)
      [] o = "[true]" -> Arr(<< True >>)
      [] o = "[[1]]" -> Arr(<< Arr(<< Num(1) >>) >>)
      [] o = "[1,a]" -> Arr(<< Num(1), Str("a") >>)
      [] o = "fn" -> Var("max")

\* let a = 0; fn t(){ println 9; return true; }
\* let r = <l> <op> <r>; println a;
ProgLogical(op, l, r) ==
    << Let("a", Num(0)),
       Fn("t", <<>>, << new_println(Num(9)), Return(True) >>),
       Let("r", Expr_logical(Operand(l), Operand(r), Op(op))),
       new_println(Var("a")) >>

\* let r = <l> <op> <r>; println r;
ProgBinary(op, l, r) ==
    << Let("r", Bin(Operand(l), op, Operand(r))),
       new_println(Var("r")) >>

\* fn f(x){ if (x == a) return "s"; return x; }
\* let m = map([1, 2], f); println m; println m[1];
ProgMap(a) ==
    << Fn("f", <<"x">>, << new_if(Bin(Var("x"), "EqualEqual", Num(a)), Return(Str("s")), <<>>),
                          Return(Var("x")) >>),
       Let("m", Call("map", << Arr(<< Num(1), Num(2) >>), Var("f") >>)),
       new_println(Var("m")),
       new_println(At("m", Num(1))) >>

\* let x = <l>; x[<a>] = <r>; println x;       (the index is 0.5 for a = -1)
ProgArrayAssign(a, l, r) ==
    << Let("x", Operand(l)),
       SetAt("x", IF a = (0 - 1) THEN Frac(1, 2) ELSE Num(a), Operand(r)),
       new_println(Var("x")) >>

\* let x = [1, 2]; print x; println x;
\* let i = 0; while (i < a) { print i; i = i + 1; } println "";
ProgPrint(a) ==
    << Let("x", Arr(<< Num(1), Num(2) >>)),
       new_print(Var("x")),
       new_println(Var("x")),
       Let("i", Num(0)),
       new_while(Bin(Var("i"), "Less", Num(a)),
                 new_block(<< new_print(Var("i")), Incr("i") >>)),
       new_println(Str("")) >>

\* if (<l>) println 1; else println 2; println 4;                 (a = 1)
\* if (<l>) println 1; println 4;                                 (a = 2)
\* while (<l>) { println 3; break; } println 4;                   (a = 3)
\* let c = true; while (c) { println 3; c = <l>; } println 4;     (a = 4, <l> not true)
ProgCondition(a, l) ==
    CASE a = 1 -> << new_if(Operand(l), new_println(Num(1)), << new_println(Num(2)) >>),
                     new_println(Num(4)) >>
      [] a = 2 -> << new_if(Operand(l), new_println(Num(1)), <<>>),
                     new_println(Num(4)) >>
      [] a = 3 -> << new_while(Operand(l), new_block(<< new_println(Num(3)),
                                                        Statement_new_break >>)),
                     new_println(Num(4)) >>
      [] a = 4 -> << Let("c", True),
                     new_while(Var("c"), new_block(<< new_println(Num(3)),
                                                      Set("c", Operand(l)) >>)),
                     new_println(Num(4)) >>

\* fn show(){ return y; } let y = 1;
\* fn caller(){ let y = 7; return show(); } fn param(y){ return show(); }
\* println show();  then  println caller();  (a = 1)  or  println param(5);  (a = 2)
ProgLexical(a) ==
    << Fn("show", <<>>, << Return(Var("y")) >>),
       Let("y", Num(1)),
       Fn("caller", <<>>, << Let("y", Num(7)), Return(Call("show", <<>>)) >>),
       Fn("param", <<"y">>, << Return(Call("show", <<>>)) >>),
       new_println(Call("show", <<>>)),
       IF a = 1 THEN new_println(Call("caller", <<>>))
       ELSE new_println(Call("param", << Num(5) >>)) >>

\* fn f(){ }
\* fn apply(g){ let f = 5; g(); return f; } println apply(f);      (a = 1)
\* fn apply(g, f){ g(); return f; } println apply(f, 5);           (a = 2)
\* fn apply(g){ let k = 5; g(); return k; } println apply(f);      (a = 3)
ProgShadow(a) ==
    << Fn("f", <<>>, <<>>),
       CASE a = 1 -> Fn("apply", <<"g">>, << Let("f", Num(5)), new_expression(Call("g", <<>>)),
                                            Return(Var("f")) >>)
         [] a = 2 -> Fn("apply", <<"g", "f">>, << new_expression(Call("g", <<>>)),
                                                 Return(Var("f")) >>)
         [] a = 3 -> Fn("apply", <<"g">>, << Let("k", Num(5)), new_expression(Call("g", <<>>)),
                                            Return(Var("k")) >>),
       new_println(Call("apply", IF a = 2 THEN << Var("f"), Num(5) >> ELSE << Var("f") >>)) >>

\* fn stop(){ break; } fn skip(){ continue; } fn pass(){ }
\* let i = 0;
\* while (i < LoopLimit) { i = i + 1; println i; <f>(); println 50; }
\* println 100;                      (f is stop for a = 1, skip for a = 2, pass for a = 3)
ProgSignal(a) ==
    << Fn("stop", <<>>, << Statement_new_break >>),
       Fn("skip", <<>>, << Statement_new_continue >>),
       Fn("pass", <<>>, <<>>),
       Let("i", Num(0)),
       new_while(Bin(Var("i"), "Less", Num(LoopLimit)),
          new_block(<< Incr("i"),
                       new_println(Var("i")),
                       new_expression(Call(CASE a = 1 -> "stop" [] a = 2 -> "skip" [] a = 3 -> "pass",
                                           <<>>)),
                       new_println(Num(50)) >>)),
       new_println(Num(100)) >>

\* let n = 0;
\* fn f(x){ n = n + 1; println x; return x + 10; }        let r = map([1, ..., a], f);
\* fn f(x){ n = n + 1; println x; return x != 2; }        let r = filter([1, ..., a], f);
\* fn f(acc, x){ n = n + 1; println x; return acc + x; }  let r = reduce([1, ..., a], 0, f);
\* println 100;                                           (l is map, filter or reduce)
ProgEach(a, l) ==
    LET source == Arr([k \in 1..a |-> Num(k)])
        counted(params, result) ==
            Fn("f", params, << Incr("n"), new_println(Var("x")), Return(result) >>)
    IN << Let("n", Num(0)),
          CASE l = "map" -> counted(<<"x">>, Bin(Var("x"), "Plus", Num(10)))
            [] l = "filter" -> counted(<<"x">>, Bin(Var("x"), "BangEqual", Num(2)))
            [] l = "reduce" -> counted(<<"acc", "x">>, Bin(Var("acc"), "Plus", Var("x"))),
          Let("r", Call(l, IF l = "reduce" THEN << source, Num(0), Var("f") >>
                           ELSE << source, Var("f") >>)),
          new_println(Num(100)) >>

\* the literal of an integer, as the parser builds it
Integer(n) == IF n < 0 THEN Expr_unary(Num(0 - n), Op("Minus")) ELSE Num(n)

\* let x = range(<l>, <r>, <a>); println x;
ProgRange(a, l, r) ==
    << Let("x", Call("range", << Operand(l), Operand(r), IF a = 3 THEN Str("a") ELSE Integer(a) >>)),
       new_println(Var("x")) >>

\* fn f(n){ if (n < 2) return n; return f(n-1) + f(n-2); }
\* println f(a); println max(a, 2); println min(a, 2); println absolute(-a); println !true;
ProgFib(a) ==
    << Fn("f", <<"n">>,
          << new_if(Bin(Var("n"), "Less", Num(2)), Return(Var("n")), <<>>),
             Return(Bin(Call("f", << Bin(Var("n"), "Minus", Num(1)) >>), "Plus",
                        Call("f", << Bin(Var("n"), "Minus", Num(2)) >>))) >>),
       new_println(Call("f", << Num(a) >>)),
       new_println(Call("max", << Num(a), Num(2) >>)),
       new_println(Call("min", << Num(a), Num(2) >>)),
       new_println(Call("absolute", << Expr_unary(Num(a), Op("Minus")) >>)),
       new_print(Expr_unary(True, Op("Bang"))) >>

\* the source texts run() is given: each reserved keyword, identifiers, and programs
Keywords ==
    {"and", "class", "else", "false", "for", "fn", "if", "null", "or", "print",
     "println", "return", "super", "this", "true", "let", "while", "bai", "break", "continue"}
IdentifierTexts == {"x", "fort", "_a1", "i2", "U+00E9", "xU+00E9", "U+00E9x"}
SourcePrograms ==
    {"for_full", "for_no_init", "for_no_cond", "for_no_incr",
     "for_none", "bai_program", "lexemes", "grammar",
     "rebind_direct", "rebind_assigned", "unknown", "unterminated",
     "let_use", "print_let_use", "native_use", "for_continue", "for_skip_last"}

\* the text of each source, character by character
Source(name) ==
    \* and
    CASE name = "and" ->
        <<"a", "n", "d">>
    \* class
      [] name = "class" ->
        <<"c", "l", "a", "s", "s">>
    \* else
      [] name = "else" ->
        <<"e", "l", "s", "e">>
    \* false
      [] name = "false" ->
        <<"f", "a", "l", "s", "e">>
    \* for
      [] name = "for" ->
        <<"f", "o", "r">>
    \* fn
      [] name = "fn" ->
        <<"f", "n">>
    \* if
      [] name = "if" ->
        <<"i", "f">>
    \* null
      [] name = "null" ->
        <<"n", "u", "l", "l">>
    \* or
      [] name = "or" ->
        <<"o", "r">>
    \* print
      [] name = "print" ->
        <<"p", "r", "i", "n", "t">>
    \* println
      [] name = "println" ->
        <<"p", "r", "i", "n", "t", "l", "n">>
    \* return
      [] name = "return" ->
        <<"r", "e", "t", "u", "r", "n">>
    \* super
      [] name = "super" ->
        <<"s", "u", "p", "e", "r">>
    \* this
      [] name = "this" ->
        <<"t", "h", "i", "s">>
    \* true
      [] name = "true" ->
        <<"t", "r", "u", "e">>
    \* let
      [] name = "let" ->
        <<"l", "e", "t">>
    \* while
      [] name = "while" ->
        <<"w", "h", "i", "l", "e">>
    \* bai
      [] name = "bai" ->
        <<"b", "a", "i">>
    \* break
      [] name = "break" ->
        <<"b", "r", "e", "a", "k">>
    \* continue
      [] name = "continue" ->
        <<"c", "o", "n", "t", "i", "n", "u", "e">>
    \* x
      [] name = "x" ->
        <<"x">>
    \* fort
      [] name = "fort" ->
        <<"f", "o", "r", "t">>
    \* _a1
      [] name = "_a1" ->
        <<"_", "a", "1">>
    \* i2
      [] name = "i2" ->
        <<"i", "2">>
    \* U+00E9
      [] name = "U+00E9" ->
        <<"U+00E9">>
    \* xU+00E9
      [] name = "xU+00E9" ->
        <<"x", "U+00E9">>
    \* U+00E9x
      [] name = "U+00E9x" ->
        <<"U+00E9", "x">>
    \* for (let i = 0; i < 2; i = i + 1) { println i; }
      [] name = "for_full" ->
        <<"f", "o", "r", " ", "(", "l", "e", "t", " ", "i", " ", "=", " ", "0", ";", " ", "i",
          " ", "<", " ", "2", ";", " ", "i", " ", "=", " ", "i", " ", "+", " ", "1", ")", " ",
          "{", " ", "p", "r", "i", "n", "t", "l", "n", " ", "i", ";", " ", "}">>
    \* let i = 0; \n for (; i < 2; i = i + 1) { println i; }
      [] name = "for_no_init" ->
        <<"l", "e", "t", " ", "i", " ", "=", " ", "0", ";", "\n", "f", "o", "r", " ", "(", ";",
          " ", "i", " ", "<", " ", "2", ";", " ", "i", " ", "=", " ", "i", " ", "+", " ", "1",
          ")", " ", "{", " ", "p", "r", "i", "n", "t", "l", "n", " ", "i", ";", " ", "}">>
    \* for (let i = 0; ; i = i + 1) { println i; }
      [] name = "for_no_cond" ->
        <<"f", "o", "r", " ", "(", "l", "e", "t", " ", "i", " ", "=", " ", "0", ";", " ", ";",
          " ", "i", " ", "=", " ", "i", " ", "+", " ", "1", ")", " ", "{", " ", "p", "r", "i",
          "n", "t", "l", "n", " ", "i", ";", " ", "}">>
    \* for (let i = 0; i < 2; ) { println i; }
      [] name = "for_no_incr" ->
        <<"f", "o", "r", " ", "(", "l", "e", "t", " ", "i", " ", "=", " ", "0", ";", " ", "i",
          " ", "<", " ", "2", ";", " ", ")", " ", "{", " ", "p", "r", "i", "n", "t", "l", "n",
          " ", "i", ";", " ", "}">>
    \* let i = 0; \n for (;;) { println i; }
      [] name = "for_none" ->
        <<"l", "e", "t", " ", "i", " ", "=", " ", "0", ";", "\n", "f", "o", "r", " ", "(", ";",
          ";", ")", " ", "{", " ", "p", "r", "i", "n", "t", "l", "n", " ", "i", ";", " ", "}">>
    \* println "a"; \n bai 1; \n println "b";
      [] name = "bai_program" ->
        <<"p", "r", "i", "n", "t", "l", "n", " ", "\"", "a", "\"", ";", "\n", "b", "a", "i",
          " ", "1", ";", "\n", "p", "r", "i", "n", "t", "l", "n", " ", "\"", "b", "\"", ";">>
    \* let s = "a \n b"; // note \n let y = [1.5, -2] ; \t println !(y[0] >= 1 and s != "c") or 1 / 2 * 3 <= 4 == false;
      [] name = "lexemes" ->
        <<"l", "e", "t", " ", "s", " ", "=", " ", "\"", "a", "\n", "b", "\"", ";", " ", "/",
          "/", " ", "n", "o", "t", "e", "\n", "l", "e", "t", " ", "y", " ", "=", " ", "[", "1",
          ".", "5", ",", " ", "-", "2", "]", " ", ";", "\t", "p", "r", "i", "n", "t", "l", "n",
          " ", "!", "(", "y", "[", "0", "]", " ", ">", "=", " ", "1", " ", "a", "n", "d", " ",
          "s", " ", "!", "=", " ", "\"", "c", "\"", ")", " ", "o", "r", " ", "1", " ", "/",
          " ", "2", " ", "*", " ", "3", " ", "<", "=", " ", "4", " ", "=", "=", " ", "f", "a",
          "l", "s", "e", ";">>
    \* fn f(a, b) { return a + b; } \n let k = f(1, 2); \n while (k > 0) { k = k - 1; if (k == 1) { continue; } else { break; } } \n println k;
      [] name = "grammar" ->
        <<"f", "n", " ", "f", "(", "a", ",", " ", "b", ")", " ", "{", " ", "r", "e", "t", "u",
          "r", "n", " ", "a", " ", "+", " ", "b", ";", " ", "}", "\n", "l", "e", "t", " ", "k",
          " ", "=", " ", "f", "(", "1", ",", " ", "2", ")", ";", "\n", "w", "h", "i", "l", "e",
          " ", "(", "k", " ", ">", " ", "0", ")", " ", "{", " ", "k", " ", "=", " ", "k", " ",
          "-", " ", "1", ";", " ", "i", "f", " ", "(", "k", " ", "=", "=", " ", "1", ")", " ",
          "{", " ", "c", "o", "n", "t", "i", "n", "u", "e", ";", " ", "}", " ", "e", "l", "s",
          "e", " ", "{", " ", "b", "r", "e", "a", "k", ";", " ", "}", " ", "}", "\n", "p", "r",
          "i", "n", "t", "l", "n", " ", "k", ";">>
    \* fn mk() { fn inner() { return 1; } return inner; } \n println mk()();
      [] name = "rebind_direct" ->
        <<"f", "n", " ", "m", "k", "(", ")", " ", "{", " ", "f", "n", " ", "i", "n", "n", "e",
          "r", "(", ")", " ", "{", " ", "r", "e", "t", "u", "r", "n", " ", "1", ";", " ", "}",
          " ", "r", "e", "t", "u", "r", "n", " ", "i", "n", "n", "e", "r", ";", " ", "}", "\n",
          "p", "r", "i", "n", "t", "l", "n", " ", "m", "k", "(", ")", "(", ")", ";">>
    \* fn mk() { fn inner() { return 1; } return inner; } \n let h = 0; \n h = mk(); \n println h();
      [] name = "rebind_assigned" ->
        <<"f", "n", " ", "m", "k", "(", ")", " ", "{", " ", "f", "n", " ", "i", "n", "n", "e",
          "r", "(", ")", " ", "{", " ", "r", "e", "t", "u", "r", "n", " ", "1", ";", " ", "}",
          " ", "r", "e", "t", "u", "r", "n", " ", "i", "n", "n", "e", "r", ";", " ", "}", "\n",
          "l", "e", "t", " ", "h", " ", "=", " ", "0", ";", "\n", "h", " ", "=", " ", "m", "k",
          "(", ")", ";", "\n", "p", "r", "i", "n", "t", "l", "n", " ", "h", "(", ")", ";">>
    \* let x = 1; x;
      [] name = "let_use" ->
        <<"l", "e", "t", " ", "x", " ", "=", " ", "1", ";", " ", "x", ";">>
    \* println 1; let x = 1; x; println x;
      [] name = "print_let_use" ->
        <<"p", "r", "i", "n", "t", "l", "n", " ", "1", ";", " ", "l", "e", "t", " ", "x", " ", "=", " ", "1", ";", " ", "x", ";", " ", "p", "r", "i", "n", "t", "l", "n", " ", "x", ";">>
    \* println 1; max;
      [] name = "native_use" ->
        <<"p", "r", "i", "n", "t", "l", "n", " ", "1", ";", " ", "m", "a", "x", ";">>
    \* for (let i = 0; i < 3; i = i + 1) { if (i == 1) { continue; } println i; }
      [] name = "for_continue" ->
        <<"f", "o", "r", " ", "(", "l", "e", "t", " ", "i", " ", "=", " ", "0", ";", " ", "i",
          " ", "<", " ", "3", ";", " ", "i", " ", "=", " ", "i", " ", "+", " ", "1", ")", " ",
          "{", " ", "i", "f", " ", "(", "i", " ", "=", "=", " ", "1", ")", " ", "{", " ", "c",
          "o", "n", "t", "i", "n", "u", "e", ";", " ", "}", " ", "p", "r", "i", "n", "t", "l",
          "n", " ", "i", ";", " ", "}">>
    \* for (let i = 0; i < 3; i = i + 1) { println i; if (i == 9) { continue; } }
      [] name = "for_skip_last" ->
        <<"f", "o", "r", " ", "(", "l", "e", "t", " ", "i", " ", "=", " ", "0", ";", " ", "i",
          " ", "<", " ", "3", ";", " ", "i", " ", "=", " ", "i", " ", "+", " ", "1", ")", " ",
          "{", " ", "p", "r", "i", "n", "t", "l", "n", " ", "i", ";", " ", "i", "f", " ", "(",
          "i", " ", "=", "=", " ", "9", ")", " ", "{", " ", "c", "o", "n", "t", "i", "n", "u",
          "e", ";", " ", "}", " ", "}">>
    \* let a = 1 # 2;
      [] name = "unknown" ->
        <<"l", "e", "t", " ", "a", " ", "=", " ", "1", " ", "#", " ", "2", ";">>
    \* print "ab
      [] name = "unterminated" ->
        <<"p", "r", "i", "n", "t", " ", "\"", "a", "b">>

\* the binding the k-th call of the program bindings goes through
Through(a, k) == IF (a \div 2 ^ (k - 1)) % 2 = 0 THEN "g" ELSE "h"

\* let c = 0; fn g(){ c = c + 1; return c; } let h = g;
\* println g(); or println h(); ... (MaxCalls times, as a says)
ProgBindings(a) ==
    << Let("c", Num(0)),
       Fn("g", <<>>, << Incr("c"), Return(Var("c")) >>),
       Let("h", Var("g")) >>
    \o [k \in 1..MaxCalls |-> new_println(Call(Through(a, k), <<>>))]

\* fn f(p, q){ println 7; return p; } println 1; l(1, ..., a); println 2;
ProgArity(a, l) ==
    << Fn("f", <<"p", "q">>, << new_println(Num(7)), Return(Var("p")) >>),
       new_println(Num(1)),
       new_expression(Call(l, [k \in 1..a |-> Num(k)])),
       new_println(Num(2)) >>

Pid(prog, a, op, l, r) == [prog |-> prog, a |-> a, op |-> op, l |-> l, r |-> r]

\* the operands of the arithmetic programs
BinaryOperands ==
    {"zero", "one", "two", "half", "neghalf", "str", "true",
     "[]", "[3]", "[1,2]", "[2,0]", "[1,half]", "[a,b]", "[true]", "[[1]]"}

ProgramIds ==
    { Pid(p, 0, "", "", "") : p \in {"closure", "call_in_block", "scope"} }
    \cup { Pid(p, a, "", "", "") :
             p \in {"while_return", "nested_break", "continue", "assign", "fib", "print"},
             a \in 1..LoopLimit }
    \cup { Pid("undefined", a, "", "", "") : a \in {1, 2} }
    \cup { Pid("arity", a, "", l, "") : a \in 0..3, l \in {"f", "max", "absolute"} }
    \cup { Pid("bindings", a, "", "", "") : a \in 0..(2 ^ MaxCalls - 1) }
    \cup { Pid("map", a, "", "", "") : a \in 1..3 }
    \cup { Pid("each", a, "", l, "") : a \in 0..LoopLimit, l \in {"map", "filter", "reduce"} }
    \cup { Pid("signal", a, "", "", "") : a \in 1..3 }
    \cup { Pid("shadow", a, "", "", "") : a \in 1..3 }
    \cup { Pid("lexical", a, "", "", "") : a \in 1..2 }
    \cup { Pid("condition", a, "", l, "") :
             a \in 1..3, l \in {"true", "false", "null", "number", "str", "[]", "fn"} }
    \cup { Pid("condition", 4, "", l, "") : l \in {"false", "null", "number", "str", "[]", "fn"} }
    \cup { Pid("range", a, "", l, r) :
             a \in (0 - 2)..3, l \in {"zero", "one", "two", "half", "str"},
             r \in {"zero", "one", "two", "str"} }
    \cup { Pid("binary", 0, op, l, r) :
             op \in {"Plus", "Minus", "Star", "Slash"},
             l \in BinaryOperands, r \in BinaryOperands }
    \cup { Pid("array_assign", a, "", l, r) :
             a \in (0 - 1)..LoopLimit,
             l \in {"[]", "[3]", "[1,2]", "[a,b]", "one"},
             r \in {"one", "str"} }
    \cup { Pid("source", 0, "", l, "") : l \in Keywords \cup IdentifierTexts \cup SourcePrograms }
    \cup { Pid("logical", 0, op, l, r) :
             op \in {"Or", "And"},
             l \in {"true", "false", "null", "number"},
             r \in {"true", "false", "null", "number", "assign", "call"} }

Program(p) ==
    CASE p.prog = "closure" -> ProgClosure
      [] p.prog = "call_in_block" -> ProgCallInBlock
      [] p.prog = "scope" -> ProgScope
      [] p.prog = "while_return" -> ProgWhileReturn(p.a)
      [] p.prog = "nested_break" -> ProgNestedBreak(p.a)
      [] p.prog = "continue" -> ProgContinue(p.a)
      [] p.prog = "assign" -> ProgAssign(p.a)
      [] p.prog = "fib" -> ProgFib(p.a)
      [] p.prog = "undefined" -> ProgUndefined(p.a)
      [] p.prog = "logical" -> ProgLogical(p.op, p.l, p.r)
      [] p.prog = "binary" -> ProgBinary(p.op, p.l, p.r)
      [] p.prog = "map" -> ProgMap(p.a)
      [] p.prog = "each" -> ProgEach(p.a, p.l)
      [] p.prog = "signal" -> ProgSignal(p.a)
      [] p.prog = "shadow" -> ProgShadow(p.a)
      [] p.prog = "lexical" -> ProgLexical(p.a)
      [] p.prog = "condition" -> ProgCondition(p.a, p.l)
      [] p.prog = "range" -> ProgRange(p.a, p.l, p.r)
      [] p.prog = "print" -> ProgPrint(p.a)
      [] p.prog = "arity" -> ProgArity(p.a, p.l)
      [] p.prog = "bindings" -> ProgBindings(p.a)
      [] p.prog = "array_assign" -> ProgArrayAssign(p.a, p.l, p.r)

----------------------------------------------------------------------------
(* The specification *)

Init ==
    /\ pid \in ProgramIds
    /\ envs = EnvManager_new
    /\ stack = IF pid.prog = "source" THEN << Frame("scan", Scanner_new(Source(pid.l))) >>
               ELSE << Frame("run", Program(pid)) >>
    /\ ret = Literal_none
    /\ out = <<>>
    /\ status = "run"
    /\ err = ""
    /\ last = [op |-> "Init", node |-> <<>>, pc |-> 0, i |-> 0, depth |-> 1,
               arg |-> Literal_none, vals |-> <<>>]

Next ==
    \/ Scan
    \/ Parse
    \/ Parser_declaration
    \/ Parser_function_declaration
    \/ Parser_let_declaration
    \/ Parser_statement
    \/ Parser_if_statement
    \/ Parser_while_statement
    \/ Parser_for_statement
    \/ Parser_return_statement
    \/ Parser_block
    \/ Parser_expression
    \/ Parser_assignment
    \/ Parser_binary
    \/ Parser_array_creation
    \/ Parser_unary
    \/ Parser_array_access
    \/ Parser_call
    \/ Parser_finish_call
    \/ Parser_primary
    \/ Run
    \/ Stmt_Function
    \/ Stmt_Return
    \/ Stmt_Block
    \/ Stmt_Expression
    \/ Stmt_If
    \/ Stmt_While
    \/ Stmt_Break
    \/ Stmt_Continue
    \/ Stmt_Print
    \/ Stmt_Bai
    \/ Stmt_Let
    \/ Expr_Literal
    \/ Expr_None
    \/ Expr_Grouping
    \/ Expr_Variable
    \/ Expr_Assign
    \/ Expr_Binary
    \/ Expr_Logical
    \/ Expr_Unary
    \/ Expr_ArrayAssign
    \/ Expr_ArrayCreation
    \/ Expr_ArrayAccess
    \/ Expr_Call
    \/ Call_UserDefined
    \/ Call_Native
    \/ Call_Map
    \/ Call_Range
    \/ Call_Filter
    \/ Call_Reduce

Spec == Init /\ [][Next]_vars

----------------------------------------------------------------------------
(* Vocabulary of the properties *)

\* the values printed so far
Texts == [n \in 1..Len(out) |-> out[n].text]
IsPrefix(s, t) == Len(s) <= Len(t) /\ \A n \in 1..Len(s) : s[n] = t[n]
\* out never leaves the expected output (a sequence of integers) and is all
\* of it at the end
Prints(expected) ==
    LET numbers == [n \in DOMAIN expected |-> float(expected[n])]
    IN /\ IsPrefix(Texts, numbers)
       /\ status = "done" => Texts = numbers

\* the step taken last handed its result to its caller
Yielded == status = "run" /\ Len(stack) = last.depth - 1
\* the step taken last was arm op resuming at position pc
Resumed(op, pc) == last.op = op /\ last.pc = pc
\* the step taken last was the Block arm receiving a statement's result
BlockResumed == Resumed("Block", 1) /\ last.i > 0

\* the frames that contain a name, and the topmost of them
FramesWith(E, name) == {n \in 1..Len(E) : name \in DOMAIN E[n]}
TopmostWith(E, name) == CHOOSE n \in FramesWith(E, name) : \A m \in FramesWith(E, name) : m <= n

----------------------------------------------------------------------------
(* C1: a user function that finishes through `return` delivers a value with
   is_return = false to the call site: no binding ever holds a return-tagged
   value, and the statements after `let x = f();` or `f();` in a block run
   (the program call_in_block prints 7, 8, 9).
   This is the claim as stated; the code violates it. *)
C1_ReturnFlagCleared ==
    /\ (Resumed("call_user", 1) /\ Yielded) => ret.is_return = FALSE
    /\ \A n \in 1..Len(envs) : \A k \in DOMAIN envs[n] : envs[n][k].is_return = FALSE
    /\ pid.prog = "call_in_block" => Prints(<<7, 8, 9>>)

(* C2: a While that receives a return-tagged value from its body stops and
   yields that value, so `return i` in the loop of f ends the call
   (the program while_return prints a).
   This is the claim as stated; the code violates it. *)
C2_WhilePropagatesReturn ==
    /\ (Resumed("While", 2) /\ last.arg.is_return) => (Yielded /\ ret = last.arg)
    /\ pid.prog = "while_return" => Prints(<< pid.a >>)

(* C3: closure persistence.  In the program closure the n-th call of g()
   returns n, and after a call of a user function that is bound under its
   name, that binding holds the same function with closure_env equal to the
   closure frame as it stood at the end of the call. *)
C3_BoundUnderName(E, self) ==
    LET b == get_variable(E, self.variable_token)
    IN /\ b.found
       /\ b.literal.literal_type = "Function"
       /\ b.literal.function[1].user_defined = self.user_defined
       /\ b.literal.function[1].variable_token = self.variable_token
C3_Rebinding ==
    (/\ Running /\ Top.kind = "call" /\ Top.node.function_type = "UserDefined" /\ Top.pc = 1
     /\ C3_BoundUnderName(destroy_env(destroy_env(envs)), Top.node))
    => /\ status' = "run"
       /\ get_variable(envs', Top.node.variable_token).literal =
             Literal_new_function([Top.node EXCEPT !.closure_env = << envs[Len(envs) - 1] >>])
C3_ClosurePersistence ==
    /\ [](pid.prog = "closure" => Prints([n \in 1..MaxCalls |-> n]))
    /\ [][C3_Rebinding]_vars
C3_Witness ==
    /\ pid.prog = "closure"
    /\ Resumed("call_user", 1) /\ Yielded
    /\ ret.literal_type = "Number" /\ ret.value = float(2)
    /\ "g" \in DOMAIN envs[1]
    /\ envs[1]["g"].function[1].closure_env[1]["c"].value = float(2)

(* C4: break locality.  A Break travels up through every Block and If
   between the break statement and the nearest enclosing While; that While
   ends and yields None, never a Break, so the loop around it goes on with
   its next statement and its further iterations (the program nested_break
   prints the inner loop's lines LoopLimit times). *)
ExpectedInnerBreak(a) ==
    [n \in 1..(2 * a - 1) |->
        IF n = 2 * a - 1 THEN 100 + a ELSE IF n % 2 = 1 THEN (n + 1) \div 2 ELSE 50]
ExpectedNestedBreak(a) ==
    [n \in 1..(LoopLimit * (2 * a - 1) + 1) |->
        IF n = LoopLimit * (2 * a - 1) + 1 THEN LoopLimit
        ELSE ExpectedInnerBreak(a)[((n - 1) % (2 * a - 1)) + 1]]
C4_BreakLocality ==
    /\ (BlockResumed /\ last.arg.literal_type = "Break")
          => (Yielded /\ ret.literal_type = "Break")
    /\ (Resumed("If", 2) /\ last.arg.literal_type = "Break")
          => (Yielded /\ ret.literal_type = "Break")
    /\ (Resumed("While", 2) /\ last.arg.literal_type = "Break")
          => (Yielded /\ ret = Literal_none)
    /\ (last.op = "While" /\ Yielded) => ret.literal_type # "Break"
    /\ pid.prog = "nested_break" => Prints(ExpectedNestedBreak(pid.a))
C4_Witness ==
    /\ pid.prog = "nested_break" /\ pid.a = 2
    /\ Resumed("While", 2) /\ last.arg.literal_type = "Break" /\ Yielded
    /\ \E k \in 1..Len(stack) : stack[k].kind = "stmt" /\ stack[k].node.statement_type = "While"
    /\ Len(out) > 3

(* C5: continue.  A Continue makes every enclosing Block up to the nearest
   enclosing While return at once (the statements after it are skipped); the
   While does not return but evaluates its condition again, and no While
   ever yields a Continue (the program continue prints no line for i = a). *)
ExpectedInnerContinue(a) ==
    [n \in 1..(2 * (LoopLimit - 1) + 1) |->
        IF n = 2 * (LoopLimit - 1) + 1 THEN 100
        ELSE IF n % 2 = 0 THEN 0
        ELSE IF (n + 1) \div 2 < a THEN (n + 1) \div 2 ELSE (n + 1) \div 2 + 1]
ExpectedContinue(a) ==
    [n \in 1..(2 * (2 * (LoopLimit - 1) + 1)) |->
        ExpectedInnerContinue(a)[((n - 1) % (2 * (LoopLimit - 1) + 1)) + 1]]
C5_ContinueLocality ==
    /\ (BlockResumed /\ last.arg.literal_type = "Continue" /\ ~last.arg.is_return)
          => (Yielded /\ ret = Literal_new_continue)
    /\ (Resumed("If", 2) /\ last.arg.literal_type = "Continue")
          => (Yielded /\ ret.literal_type = "Continue")
    /\ (Resumed("While", 2) /\ last.arg.literal_type = "Continue")
          => /\ status = "run"
             /\ Len(stack) = last.depth + 1
             /\ stack[Len(stack) - 1].node.statement_type = "While"
             /\ Top = Frame("expr", stack[Len(stack) - 1].node.expr[1])
    /\ (last.op = "While" /\ Yielded) => ret.literal_type # "Continue"
    /\ pid.prog = "continue" => Prints(ExpectedContinue(pid.a))
C5_Witness ==
    /\ pid.prog = "continue" /\ pid.a = 2
    /\ Resumed("While", 2) /\ last.arg.literal_type = "Continue"
    /\ Top.kind = "expr"
    /\ Len(out) > 2 * (LoopLimit - 1) + 1

(* C6: scope isolation of let.  The Let arm defines its name in the topmost
   frame only (every frame below and every other name is as before) and a
   read of the name then sees that binding; leaving a block removes its
   frame and changes no other; so the outer x of the program scope is 2 and
   then 1 again after the blocks that define their own x. *)
C6_LetStep ==
    (IsStmt("Let") /\ Top.pc = 1)
    => LET x == Top.node.token_name.lexeme
           n == Len(envs)
       IN /\ Len(envs') = n
          /\ \A m \in 1..(n - 1) : envs'[m] = envs[m]
          /\ DOMAIN envs'[n] = DOMAIN envs[n] \cup {x}
          /\ \A k \in DOMAIN envs[n] \ {x} : envs'[n][k] = envs[n][k]
          /\ envs'[n][x] = ret'
          /\ get_variable(envs', Ident(x)) = [found |-> TRUE, literal |-> envs'[n][x]]
C6_BlockExit ==
    (IsStmt("Block") /\ Top.pc = 1 /\ Len(stack') < Len(stack))
    => envs' = SubSeq(envs, 1, Len(envs) - 1)
C6_LetScopeIsolation ==
    /\ [][C6_LetStep /\ C6_BlockExit]_vars
    /\ [](pid.prog = "scope" => Prints(<<2, 3, 2, 1>>))
C6_Witness ==
    /\ pid.prog = "scope"
    /\ Resumed("Let", 1) /\ Yielded
    /\ Len(envs) = 3
    /\ \A n \in 1..3 : "x" \in DOMAIN envs[n] /\ envs[n]["x"].value = float(n)

(* C7: assignment overwrites the binding in the topmost frame that contains
   the name and nothing else: no frame is pushed or popped, no frame gains
   or loses a name, every other binding keeps its value. *)
C7_AssignStep ==
    (/\ IsExpr("Assign") /\ Top.pc = 1
     /\ FramesWith(envs, Top.node.operator.lexeme) # {})
    => LET name == Top.node.operator.lexeme
           t == TopmostWith(envs, name)
       IN /\ status' = "run"
          /\ Len(envs') = Len(envs)
          /\ \A m \in 1..Len(envs) : DOMAIN envs'[m] = DOMAIN envs[m]
          /\ envs'[t][name] = ret
          /\ \A m \in 1..Len(envs) : \A k \in DOMAIN envs[m] :
                (m # t \/ k # name) => envs'[m][k] = envs[m][k]
C7_AssignFrameEffect == [][C7_AssignStep]_vars
C7_Witness ==
    /\ pid.prog = "assign" /\ pid.a = 3
    /\ Resumed("Assign", 1) /\ Yielded
    /\ Len(envs) = 3
    /\ FramesWith(envs, "x") = {1, 2}
    /\ envs[2]["x"].value = float(3)
    /\ envs[1]["x"].value = float(1)

(* C8: scope errors are fatal.  Reading a name no frame contains, or
   assigning to one, ends the interpreter with a diagnostic; the failing
   operation has changed no frame and nothing happens afterwards. *)
C8_FailingStep ==
    (\/ (IsExpr("Variable") /\ FramesWith(envs, Top.node.operator.lexeme) = {})
     \/ (IsExpr("Assign") /\ Top.pc = 1 /\ FramesWith(envs, Top.node.operator.lexeme) = {}))
    => /\ status' = "fatal"
       /\ err' # ""
       /\ envs' = envs
       /\ out' = out
C8_ScopeErrorsFatal ==
    /\ [][C8_FailingStep]_vars
    /\ [][status = "fatal" => UNCHANGED <<envs, stack, out, status>>]_vars
C8_Witness ==
    /\ pid.prog = "undefined"
    /\ status = "fatal"
    /\ last.op = "Variable"
    /\ err = "is an undefined variable"
    /\ FramesWith(envs, "z") = {}

(* C9: and/or short-circuit.  When the left operand of `or` is true, or the
   left operand of `and` is false or null, the right operand expression is
   not evaluated and the left operand is the result; otherwise the result is
   the right operand's value.
   This is the claim as stated; the code violates it. *)
ShortCircuits(token_type, left_literal) ==
    \/ (token_type = "Or" /\ left_literal.value = "true")
    \/ (token_type = "And" /\ left_literal.value \in {"false", "null"})
C9_ShortCircuit ==
    /\ \A k \in 1..Len(stack) :
          (/\ stack[k].kind = "expr"
           /\ stack[k].node.expr_type = "Logical"
           /\ stack[k].pc = 2
           /\ is_truthy(stack[k].vals[1]))
          => ~ShortCircuits(stack[k].node.operator.token_type, stack[k].vals[1])
    /\ (Resumed("Logical", 2) /\ Yielded)
          => ret = IF ShortCircuits(last.node.operator.token_type, last.vals[1])
                   THEN last.vals[1] ELSE last.arg

(* C10: an operand of and/or whose tag is neither Bool nor Null is fatal,
   left and right alike, and a logical expression yields only Bool or Null.
   This is the claim as stated; the code violates it. *)
C10_LogicalOperandTypes ==
    Resumed("Logical", 2)
    => IF ~is_truthy(last.vals[1]) \/ ~is_truthy(last.arg)
       THEN status = "fatal"
       ELSE Yielded /\ ret.literal_type \in {"Bool", "Null"}

(* C11: array homogeneity.  Every Array value the evaluator holds (the value
   just returned, a binding of any frame, a temporary of any activation) has
   all its elements of one tag.
   This is the claim as stated; the code violates it (map). *)
Homogeneous(literal) ==
    literal.literal_type = "Array"
    => \A i, j \in 1..Len(literal.array_values) :
          literal.array_values[i].literal_type = literal.array_values[j].literal_type
C11_ArrayHomogeneity ==
    (Len(stack) > 0 /\ stack[1].kind = "run")
    => /\ Homogeneous(ret)
       /\ \A n \in 1..Len(envs) : \A k \in DOMAIN envs[n] : Homogeneous(envs[n][k])
       /\ \A n \in 1..Len(stack) : \A k \in 1..Len(stack[n].vals) : Homogeneous(stack[n].vals[k])

(* C12: indexed assignment a[i] = v on an array of length n.  For i < n the
   element i is replaced and the length kept; for i = n the value is
   appended, for every n; for i > n, or when v has another tag than the
   elements (n > 0), the assignment is fatal.
   This is the claim as stated; the code violates it (i = n > 0). *)
C12_IndexedAssignment ==
    Resumed("ArrayAssign", 2)
    => LET array_values == last.vals[1].array_values
           n == Len(array_values)
           i == as_i32(last.vals[2].value)
           v == last.arg
           fits == n = 0 \/ array_values[1].literal_type = v.literal_type
       IN IF i > n \/ ~fits
          THEN status = "fatal"
          ELSE /\ Yielded
               /\ ret = Literal_none
               /\ get_variable(envs, last.node.operator).literal.array_values =
                     IF i = n THEN Append(array_values, v)
                     ELSE [array_values EXCEPT ![i + 1] = v]

(* C13: division.  Number / Number is the quotient whenever the divisor is
   not zero and is fatal when it is zero; an array of Numbers divided by an
   array of Numbers of the same length is fatal when a divisor element is
   zero and is the array of the quotients otherwise.
   This is the claim as stated; the code violates it (a divisor between -1
   and 1). *)
C13_Division ==
    (Resumed("Binary", 2) /\ last.node.operator.token_type = "Slash")
    => LET left == last.vals[1]
           right == last.arg
           n == Len(left.array_values)
       IN CASE left.literal_type = "Number" /\ right.literal_type = "Number" ->
                 IF right.value = float(0)
                 THEN status = "fatal"
                 ELSE Yielded /\ ret = Literal_number(f32_div(left.value, right.value))
            [] /\ left.literal_type = "Array" /\ right.literal_type = "Array"
               /\ n = Len(right.array_values) /\ n > 0
               /\ \A i \in 1..n : /\ left.array_values[i].literal_type = "Number"
                                  /\ right.array_values[i].literal_type = "Number" ->
                 IF \E i \in 1..n : right.array_values[i].value = float(0)
                 THEN status = "fatal"
                 ELSE /\ Yielded
                      /\ ret = Literal_new_array(
                            [i \in 1..n |-> Literal_number(f32_div(left.array_values[i].value,
                                                                   right.array_values[i].value))])
            [] OTHER -> TRUE

(* C14: element-wise array arithmetic.  For + - * / on two arrays: arrays
   of different lengths or of different element tags are fatal; otherwise
   the result has the same length and its i-th element is the scalar result
   of the operator on the i-th elements (and the operation is fatal when the
   scalar operation is).
   This is the claim as stated; the code violates it (an array of Numbers
   plus an array of Strings). *)
C14_ElementWise ==
    (/\ Resumed("Binary", 2)
     /\ last.node.operator.token_type \in {"Plus", "Minus", "Star", "Slash"}
     /\ last.vals[1].literal_type = "Array" /\ last.arg.literal_type = "Array")
    => LET op == last.node.operator.token_type
           A == last.vals[1].array_values
           B == last.arg.array_values
           n == Len(A)
       IN IF Len(A) # Len(B) \/ (n > 0 /\ A[1].literal_type # B[1].literal_type)
          THEN status = "fatal"
          ELSE IF \A i \in 1..n : binary(op, A[i], B[i]).ok
          THEN /\ Yielded
               /\ ret = Literal_new_array([i \in 1..n |-> binary(op, A[i], B[i]).literal])
          ELSE status = "fatal"

(* C15: `print e` writes the text of e and no newline, `println e` writes the
   text and one newline, for arrays and for every other value; so the
   program print writes two lines: the array twice, then the digits of the
   loop and the empty string.
   This is the claim as stated; the code violates it (print of a value that
   is not an array). *)
Lines == Cardinality({n \in 1..Len(out) : out[n].newline})
C15_PrintNewline ==
    /\ (last.op \in {"Print", "Println"} /\ last.pc = 1 /\ Yielded)
          => /\ Len(out) > 0
             /\ out[Len(out)].newline = (last.op = "Println")
             /\ out[Len(out)].text = IF last.arg.literal_type = "Array"
                                     THEN array_text(last.arg) ELSE last.arg.value
    /\ (pid.prog = "print" /\ status = "done") => Lines = 2

----------------------------------------------------------------------------
(* Vocabulary of the properties on the scanner and the parser *)

\* the process ended in the scanner, in the parser
ScanError == status = "fatal" /\ stack[1].kind = "scan"
ParseFailed == status = "fatal" /\ stack[1].kind \in {"parse", "parser"}
\* the step taken last was the function method of Parser returning ret
Returned(method) == last.op = method /\ Yielded

(* C16: `for (init; cond; incr) body` is parsed without error with any of
   its clauses missing and becomes { init; while (cond) { body; incr; } },
   where a missing cond is the literal true and a missing init or incr is
   left out.  The sources for_full, for_no_init, for_no_cond, for_no_incr
   and for_none are `for (let i = 0; i < 2; i = i + 1) { println i; }` with
   the clauses named removed.
   This is the claim as stated; the code violates it (missing cond, missing
   incr). *)
C16_Sources == {"for_full", "for_no_init", "for_no_cond", "for_no_incr", "for_none"}
C16_Loop(name) ==
    LET i == Var("i")
        init == new_let(Num(0), Ident("i"))
        cond == IF name \in {"for_no_cond", "for_none"} THEN True
                ELSE Expr_binary(i, Num(2), Token_new("Less", "<", <<>>))
        incr == new_expression(Expr_assign(Expr_binary(i, Num(1), Token_new("Plus", "+", <<>>)),
                                           Ident("i")))
        body == new_block(<< new_println(i) >>)
        loop == new_while(cond, IF name \in {"for_no_incr", "for_none"} THEN body
                                ELSE new_block(<< body, incr >>))
    IN IF name \in {"for_no_init", "for_none"} THEN loop ELSE new_block(<< init, loop >>)
C16_ForDesugaring ==
    (pid.prog = "source" /\ pid.l \in C16_Sources)
    => /\ ~ParseFailed
       /\ Returned("Parser::for_statement") => ret = C16_Loop(pid.l)
       /\ status = "done" => \E n \in 1..Len(stack[1].node) : stack[1].node[n] = C16_Loop(pid.l)

(* C17: when a user function has been called and no frame of the
   environment stack contains the name of its variable_token, the rebinding
   does nothing: the call returns its result, the process goes on and the
   frames are those of before the call.  rebind_direct is
   `fn mk() { fn inner() { return 1; } return inner; } println mk()();` and
   rebind_assigned binds the value with `h = mk();` and prints h(): both
   print 1.
   This is the claim as stated; the code violates it. *)
C17_Sources == {"rebind_direct", "rebind_assigned"}
C17_NameAbsent ==
    /\ Running /\ Top.kind = "call" /\ Top.node.function_type = "UserDefined" /\ Top.pc = 1
    /\ FramesWith(destroy_env(destroy_env(envs)), Top.node.variable_token.lexeme) = {}
C17_Noop ==
    C17_NameAbsent
    => /\ status' = "run"
       /\ stack' = SubSeq(stack, 1, Len(stack) - 1)
       /\ ret' = ret
       /\ envs' = destroy_env(destroy_env(envs))
C17_RebindingNoop ==
    /\ [](pid.prog = "source" /\ pid.l \in C17_Sources => Prints(<<1>>))
    /\ [][C17_Noop]_vars

(* C18: closure state is not shared between bindings.  After `let h = g;`
   a call through g leaves the closure_env stored in h as it was, and a call
   through h leaves that of g as it was, so each binding counts its own
   calls only: the k-th call of the program bindings prints the number of
   calls made so far through the binding it uses. *)
C18_Closure(E, name) == E[1][name].function[1].closure_env
C18_Other(name) == IF name = "g" THEN "h" ELSE "g"
C18_CallThrough(name) ==
    \E n \in 1..Len(stack) : /\ stack[n].kind = "call"
                             /\ stack[n].node.variable_token.lexeme = name
C18_OtherKept ==
    \A name \in {"g", "h"} :
        (pid.prog = "bindings" /\ status = "run" /\ C18_CallThrough(name))
        => /\ C18_Other(name) \in DOMAIN envs'[1]
           /\ C18_Closure(envs', C18_Other(name)) = C18_Closure(envs, C18_Other(name))
C18_Expected(a) ==
    [k \in 1..MaxCalls |-> Cardinality({j \in 1..k : Through(a, j) = Through(a, k)})]
C18_BindingsIndependent ==
    /\ [](pid.prog = "bindings" => (status # "fatal" /\ Prints(C18_Expected(pid.a))))
    /\ [][C18_OtherKept]_vars
\* both bindings have been called and hold different closures
C18_Witness ==
    /\ pid.prog = "bindings" /\ status = "done"
    /\ C18_Closure(envs, "g")[1]["c"].value = float(2)
    /\ C18_Closure(envs, "h")[1]["c"].value = float(1)

(* C20: arity is enforced at the call.  When the number of arguments of a
   call differs from the arity of the callee (the number of parameters of a
   user function, the table value of a native) the process ends with an
   error: no frame is pushed for the callee and neither its body nor its
   native implementation runs.  The program arity calls f (2 parameters,
   prints 7), max (2) or absolute (1) with 0 to 3 arguments between
   `println 1` and `println 2`. *)
C20_Arity(function) ==
    IF function.function_type = "UserDefined" THEN Len(function.arguments)
    ELSE IF function.native_type = "Absolute" THEN 1
    ELSE IF function.native_type \in {"Reduce", "Range"} THEN 3
    ELSE 2
\* the Call arm holds the callee and all the arguments, of the wrong number
C20_WrongCount ==
    /\ IsExpr("Call") /\ Top.pc = 1
    /\ Len(Top.vals) = Len(Top.node.arguments)
    /\ LET callee == Append(Top.vals, ret)[1]
       IN /\ callee.literal_type = "Function"
          /\ C20_Arity(callee.function[1]) # Len(Top.node.arguments)
C20_Refused ==
    C20_WrongCount => (status' = "fatal" /\ stack' = stack /\ envs' = envs /\ out' = out)
C20_ArityEnforced ==
    /\ [][C20_Refused]_vars
    /\ [](pid.prog = "arity" /\ pid.a # (IF pid.l = "absolute" THEN 1 ELSE 2)
            => (status # "done" /\ IsPrefix(Texts, << float(1) >>)))
\* f was called with three arguments: the process ended in the Call arm
C20_Witness ==
    /\ pid.prog = "arity" /\ pid.l = "f" /\ pid.a = 3
    /\ status = "fatal" /\ last.op = "Call" /\ Top.kind = "expr"
    /\ Len(last.vals) = 3
    /\ Texts = << float(1) >>

(* C19: the shape of the lexer's output.  Every token list the scanner
   hands to the parser ends with one Eof token and holds no other; the text
   of a reserved keyword K is scanned to one token of the kind of K before
   the Eof, and any other identifier text (letters, digits and `_`, not
   starting with a digit) to one Identifier token: the scanner ends on none
   of them with an error.
   This is the claim as stated; the code violates it (a letter outside
   ASCII). *)
C19_Kind ==
    [and |-> "And", class |-> "Class", else |-> "Else", false |-> "False", for |-> "For",
     fn |-> "Fn", if |-> "If", null |-> "Null", or |-> "Or", print |-> "Print",
     println |-> "Println", return |-> "Return", super |-> "Super", this |-> "This",
     true |-> "True", let |-> "Let", while |-> "While", bai |-> "Bai", break |-> "Break",
     continue |-> "Continue"]
C19_Kinds(tokens) == [n \in 1..Len(tokens) |-> tokens[n].token_type]
C19_LexerShape ==
    /\ (Len(stack) > 0 /\ stack[1].kind = "parse")
          => LET kinds == C19_Kinds(stack[1].node.tokens)
             IN /\ Len(kinds) > 0
                /\ \A n \in 1..Len(kinds) : (kinds[n] = "Eof") = (n = Len(kinds))
                /\ (pid.l \in Keywords) => kinds = << C19_Kind[pid.l], "Eof" >>
                /\ (pid.l \in IdentifierTexts) => kinds = << "Identifier", "Eof" >>
    /\ (pid.prog = "source" /\ pid.l \in Keywords \cup IdentifierTexts) => ~ScanError

(* C21: range(start, end, step) terminates on every triple it accepts and
   returns the finite array start, start + step, start + 2 * step, ... of
   the values that do not pass end; for start > end and a negative step
   that is a descending array beginning at start.  While range() runs, the
   array it has built is a beginning of that array, and the array it returns
   is all of it.
   This is the claim as stated; the code violates it (start > end with a
   negative step: the loop subtracts the step and never ends). *)
RECURSIVE C21_Expected(_, _, _)
C21_Expected(x, end, step) ==
    IF (f32_lt(float(0), step) /\ f32_lt(end, x)) \/ (f32_lt(step, float(0)) /\ f32_lt(x, end))
    THEN <<>>
    ELSE << x >> \o C21_Expected(f32_add(x, step), end, step)
C21_Values(array_values) == [n \in 1..Len(array_values) |-> array_values[n].value]
\* range() is in its loop
C21_InLoop == Running /\ Top.kind = "call" /\ Top.node.native_type = "Range" /\ Top.pc = 1
\* range() has returned
C21_Returned == Yielded /\ last.op = "range" /\ last.vals[3].literal_type = "Number"
                        /\ last.vals[3].value # float(0)
C21_RangeTerminates ==
    /\ C21_InLoop =>
          IsPrefix(C21_Values(SubSeq(Top.vals, 5, Len(Top.vals))),
                   C21_Expected(Top.vals[1].value, Top.vals[2].value, Top.vals[3].value))
    /\ C21_Returned =>
          C21_Values(ret.array_values)
             = C21_Expected(last.vals[1].value, last.vals[2].value, last.vals[3].value)

(* C22: conditions accept only Bool and Null.  When the If or the While arm
   receives the value of its condition: on any tag other than Bool and Null
   the process ends with an error there and neither a branch nor the body
   runs; on true the then-branch (the body) is what runs next; on false and
   on null the else-branch runs next, or the statement ends when there is
   none, and the loop ends.  The programs condition print 1 in the
   then-branch, 2 in the else-branch, 3 in the body and 4 after the
   statement. *)
C22_Condition == (IsStmt("If") \/ IsStmt("While")) /\ Top.pc = 1
C22_Runs(statement) ==
    /\ Len(stack') = Len(stack) + 1
    /\ stack'[Len(stack')] = Frame("stmt", statement)
    /\ status' = "run"
C22_Ends == Len(stack') = Len(stack) - 1 /\ ret' = Literal_none /\ status' = "run"
C22_Step ==
    C22_Condition =>
       IF ret.literal_type \notin {"Bool", "Null"}
       THEN status' = "fatal" /\ stack' = stack /\ out' = out /\ envs' = envs
       ELSE IF ret.literal_type = "Bool" /\ ret.value = "true"
       THEN C22_Runs(Top.node.then_branch[1])
       ELSE IF IsStmt("If") /\ Len(Top.node.else_branch) > 0
       THEN C22_Runs(Top.node.else_branch[1])
       ELSE C22_Ends
\* what a program condition has printed when it is over
C22_Expected ==
    IF pid.l \notin {"true", "false", "null"}
    THEN IF pid.a = 4 THEN << float(3) >> ELSE <<>>
    ELSE CASE pid.a = 1 -> << float(IF pid.l = "true" THEN 1 ELSE 2), float(4) >>
           [] pid.a = 2 -> IF pid.l = "true" THEN << float(1), float(4) >> ELSE << float(4) >>
           [] pid.a = 3 -> IF pid.l = "true" THEN << float(3), float(4) >> ELSE << float(4) >>
           [] pid.a = 4 -> << float(3), float(4) >>
C22_ConditionTypes ==
    /\ [][C22_Step]_vars
    /\ [](pid.prog = "condition"
            => /\ IsPrefix(Texts, C22_Expected)
               /\ (status = "done") => (pid.l \in {"true", "false", "null"}
                                         /\ Texts = C22_Expected)
               /\ (status = "fatal") => (pid.l \notin {"true", "false", "null"}
                                          /\ Texts = C22_Expected))
\* a loop has ended on a null condition after its body ran once
C22_Witness ==
    /\ pid.prog = "condition" /\ pid.a = 4 /\ pid.l = "null"
    /\ status = "done" /\ Texts = << float(3), float(4) >>

(* C23: lexical scoping.  When a variable is read inside the body of a user
   function, the frame it is found in is the global frame or one of the
   frames the call itself has pushed (the captured closure frame, the frame
   of the parameters, the frames of the blocks of the body): never a frame
   of the calling function.  The program lexical reads y in show(), called
   from the top level, from a function with a local y and from a function
   with a parameter y: each call prints the global 1.
   This is the claim as stated; the code violates it (the frames of a call
   are pushed on top of the caller's frames and the lookup walks down
   through all of them). *)
\* the number of frames an activation on the evaluation stack has pushed
FramesPushed(frame) ==
    IF frame.kind = "call" /\ frame.pc > 0
    THEN (IF frame.node.function_type = "UserDefined" THEN 2 ELSE 1)
    ELSE IF frame.kind = "stmt" /\ frame.node.statement_type = "Block" /\ frame.pc > 0
    THEN 1
    ELSE 0
RECURSIVE DepthAt(_)
\* the number of frames of envs when activation k began
DepthAt(k) == IF k = 1 THEN 1 ELSE DepthAt(k - 1) + FramesPushed(stack[k - 1])
\* the user function calls in progress
C23_Calls ==
    {k \in 1..Len(stack) : stack[k].kind = "call" /\ stack[k].node.function_type = "UserDefined"}
C23_Innermost == CHOOSE k \in C23_Calls : \A j \in C23_Calls : j <= k
C23_LexicalScoping ==
    /\ (IsExpr("Variable") /\ C23_Calls # {} /\ FramesWith(envs, Top.node.operator.lexeme) # {})
          => LET found == TopmostWith(envs, Top.node.operator.lexeme)
             IN found = 1 \/ found > DepthAt(C23_Innermost)
    /\ (pid.prog = "lexical") => Prints(<< 1, 1 >>)

(* C24: environment-stack balance.  Every activation of the evaluator (a
   statement, an expression, a user or native call) accounts for the frames
   it has pushed and for no other: at each moment the depth of the
   environment stack is 1 plus the frames pushed by the activations in
   progress, so that an activation that completes, normally or with Break,
   Continue or a returned value, leaves the depth it found.  The depth is at
   least 1 and the bottom frame is the global frame with the natives. *)
C24_Completes == status = "run" /\ Len(stack') = Len(stack) - 1
C24_Balance ==
    /\ [](status # "fatal" => Len(envs) = DepthAt(Len(stack) + 1))
    /\ [][C24_Completes => Len(envs') = DepthAt(Len(stack))]_vars
    /\ [](Len(envs) >= 1 /\ NativeNames \subseteq DOMAIN envs[1])
\* a user call whose body held a loop and ended with a returned value has
\* completed at the top level
C24_Witness ==
    /\ pid.prog = "while_return" /\ pid.a = 2
    /\ Yielded /\ last.op = "call_user" /\ ret.is_return
    /\ Len(envs) = 1

(* C25: an assignment in a user function to a variable of the frame the
   function captured changes the captured copy only.  When the Assign arm
   stores into a name that the closure frame of the innermost call holds,
   every frame below that closure frame (the frames of the enclosing scope
   and of the callers) stays as it is; in the program bindings, where g
   assigns c = c + 1 at each call, the global c is 0 before and after every
   call. *)
C25_ClosureFrame == DepthAt(C23_Innermost) + 1
C25_AssignsCaptured ==
    /\ IsExpr("Assign") /\ Top.pc = 1 /\ C23_Calls # {}
    /\ stack[C23_Innermost].pc > 0
    /\ Top.node.operator.lexeme \in DOMAIN envs[C25_ClosureFrame]
C25_Step ==
    C25_AssignsCaptured =>
       /\ status' = "run"
       /\ \A n \in 1..(C25_ClosureFrame - 1) : envs'[n] = envs[n]
       /\ envs'[TopmostWith(envs, Top.node.operator.lexeme)][Top.node.operator.lexeme] = ret
C25_CapturedCopyOnly ==
    /\ [][C25_Step]_vars
    /\ [](pid.prog = "bindings" /\ "c" \in DOMAIN envs[1] => envs[1]["c"].value = float(0))
\* g has assigned c = 1 and returned: its closure holds 1, the global c is 0
C25_Witness ==
    /\ pid.prog = "bindings" /\ Yielded /\ last.op = "call_user"
    /\ envs[1]["g"].function[1].closure_env[1]["c"].value = float(1)
    /\ envs[1]["c"].value = float(0)

(* C26: the rebinding at the end of a user call only overwrites a binding
   that holds the called function.  When Function::call is about to rebind
   the name N of its function value, the topmost binding named N under the
   frames of the call holds that function (its parameters and its body), so
   that no other value is replaced: the program shadow, which calls f
   through a parameter g next to a local or a parameter named f that holds
   5, prints 5.
   This is the claim as stated; the code violates it (the rebinding
   overwrites whatever the topmost binding named N holds). *)
C26_Rebinding ==
    /\ Running /\ Top.kind = "call" /\ Top.node.function_type = "UserDefined" /\ Top.pc = 1
    /\ FramesWith(destroy_env(destroy_env(envs)), Top.node.variable_token.lexeme) # {}
C26_Bound ==
    LET E == destroy_env(destroy_env(envs))
        name == Top.node.variable_token.lexeme
    IN E[TopmostWith(E, name)][name]
C26_RebindsOwnBinding ==
    /\ C26_Rebinding =>
          /\ C26_Bound.literal_type = "Function"
          /\ C26_Bound.function[1].user_defined = Top.node.user_defined
          /\ C26_Bound.function[1].arguments = Top.node.arguments
    /\ (pid.prog = "shadow") => Prints(<< 5 >>)

(* C27: parsing is independent of the environment.  A source in which every
   variable is defined by an earlier statement is parsed completely: no
   error is raised before the evaluation of its first statement begins, and
   `let x = 1; x;` and `println 1; let x = 1; x; println x;` run to their
   end, the second one printing 1 and 1.
   This is the claim as stated; the code violates it (the parser evaluates
   an expression statement that is a variable, before any statement has
   run). *)
C27_Sources == {"let_use", "print_let_use"}
C27_ParsingIndependent ==
    (pid.prog = "source" /\ pid.l \in C27_Sources)
    => /\ ~ParseFailed
       /\ status # "fatal"
       /\ Prints(IF pid.l = "let_use" THEN <<>> ELSE << 1, 1 >>)

(* C28: Break and Continue do not cross a user function call.  The value a
   user call hands to its call site is never a Break or a Continue, so a
   `break` or `continue` in a function body, outside any loop of that body,
   leaves the loop of the caller alone: the program signal, which calls such
   a function between `println i` and `println 50` in each of its LoopLimit
   iterations, prints i and 50 each time and 100 at the end.
   This is the claim as stated; the code violates it (the body's Break or
   Continue is returned by the call as it is). *)
RECURSIVE C28_Iterations(_)
C28_Iterations(n) == IF n = 0 THEN <<>> ELSE C28_Iterations(n - 1) \o << n, 50 >>
C28_SignalsStayInside ==
    /\ (Yielded /\ last.op = "call_user") => ret.literal_type \notin {"Break", "Continue"}
    /\ (pid.prog = "signal") => Prints(C28_Iterations(LoopLimit) \o << 100 >>)

(* C29: in a for loop the increment is evaluated after every iteration of
   the body, an iteration ended by `continue` included.  The parser turns
   the loop into while (cond) { body; incr; }: whenever that block hands its
   result to the While arm, both of its statements have run, so that
   `for (let i = 0; i < 3; i = i + 1) { if (i == 1) { continue; } println i; }`
   prints 0 and 2 and ends.
   This is the claim as stated; the code violates it (the block of body and
   incr is left at the Continue of the body, before incr). *)
C29_Sources == {"for_full", "for_continue", "for_skip_last"}
\* the block { body; incr; } has handed its result to the While arm
C29_IterationOver ==
    /\ pid.prog = "source" /\ pid.l \in C29_Sources
    /\ IsStmt("While") /\ Top.pc = 2
    /\ last.op = "Block" /\ last.depth = Len(stack) + 1
C29_IncrementRuns ==
    /\ C29_IterationOver =>
          /\ last.i = Len(last.node.statements)
          /\ last.node.statements[last.i].statement_type = "Expression"
          /\ last.node.statements[last.i].expr[1].expr_type = "Assign"
    /\ (pid.prog = "source" /\ pid.l = "for_continue") => Prints(<< 0, 2 >>)
    /\ (pid.prog = "source" /\ pid.l = "for_skip_last") => Prints(<< 0, 1, 2 >>)

(* C30: map, filter and reduce call the function they are given exactly once
   per element of the source array, in index order.  In the program each the
   callback prints its element and counts its calls in n: once the built-in
   has returned, the elements 1, ..., a have been printed once each, in
   order, and the counter of the callback is a; map has returned an array
   of a elements and filter the elements other than 2, in their order.
   This is the claim as stated; the code violates it (filter and reduce call
   the function on the first element once more, to test the type of its
   result; and every call starts from the closure the built-in received, so
   the counter is 1 after any number of calls). *)
C30_Returned == pid.prog = "each" /\ FramesWith(envs, "r") # {}
C30_Counter == envs[1]["f"].function[1].closure_env[1]["n"].value
C30_OncePerElement ==
    /\ (pid.prog = "each") => Prints([k \in 1..pid.a |-> k] \o << 100 >>)
    /\ C30_Returned =>
          /\ C30_Counter = float(pid.a)
          /\ (pid.l = "map") => Len(envs[1]["r"].array_values) = pid.a
          /\ (pid.l = "filter") =>
                C21_Values(envs[1]["r"].array_values)
                   = SelectSeq([k \in 1..pid.a |-> float(k)], LAMBDA x : x # float(2))

====
